---------------------------- MODULE Spec2Model ----------------------------
(***************************************************************************)
(* A state-machine model of parts of the antlr4ng runtime:                 *)
(*   - Lexer (src/src/Lexer.ts): nextToken, the mode stack, reset;         *)
(*   - UnbufferedTokenStream (src/src/UnbufferedTokenStream.ts).           *)
(* Specification Spec drives the Lexer, SpecUTS the token stream.          *)
(***************************************************************************)
EXTENDS Integers, Sequences, FiniteSets, TLC

(***************************************************************************)
(* Bounds of the model.                                                    *)
(***************************************************************************)
MaxInput == 2        \* longest character input
MaxStack == 1        \* pushMode is not called on a deeper mode stack
MaxTokens == 2       \* most tokens a token source yields before its EOF token
MaxMarkers == 2      \* mark() is not called with more markers outstanding
MaxLook == 2         \* largest k of LT(k), LA(k)
MaxPInput == 2       \* longest token input of the ParserInterpreter
MaxVer == 3          \* longest version string outside the documented forms
MaxSym == 2          \* largest symbol of an interval set

(***************************************************************************)
(* Program constants.                                                      *)
(***************************************************************************)
DEFAULT_MODE == 0
MORE == -2
SKIP == -3
EOF == -1
INVALID_TYPE == 0
DEFAULT_CHANNEL == 0
HIDDEN == 1

NL == "\n"
Chars == {"a", NL}
Modes == {0, 1}          \* the lexer modes of the grammar
RuleTypes == {1}         \* the token types of its rules
CommandTypes == {2}      \* the token types its type() commands set
Markers == {1, 2}        \* the values CharStream.mark() may return
Null == "null"
NoToken == [none |-> TRUE]
Undefined == [undefined |-> TRUE]

RECURSIVE SeqsUpTo(_, _)
SeqsUpTo(S, k) ==
    IF k = 0 THEN {<<>>}
    ELSE LET shorter == SeqsUpTo(S, k - 1)
         IN shorter \cup {Append(s, c) : s \in shorter, c \in S}

Inputs == SeqsUpTo(Chars, MaxInput)

VARIABLES
    lexer,              \* the Lexer object's fields
    input,              \* the CharStream: [data, index]
    interp,             \* the interpreter's position: [line, column]
    pc,                 \* where the running nextToken call stands
    tokenStartMarker,   \* nextToken's local
    matchResult,        \* what interpreter.match did: returned or threw
    pending,            \* the error propagating out of nextToken
    ret,                \* what the last call returned
    thrown,             \* what the last call threw
    obs                 \* observations of the calls made on collaborators

lexVars == <<lexer, input, interp, pc, tokenStartMarker, matchResult, pending,
             ret, thrown, obs>>

VARIABLES
    uts,                \* the UnbufferedTokenStream's fields, its token source included
    uRet,               \* what the last call on the stream returned
    uThrown,            \* what the last call on the stream threw
    uObs                \* the last call made and the markers outstanding

utsVars == <<uts, uRet, uThrown, uObs>>

VARIABLES
    pi,                 \* the ParserInterpreter's fields, its input stream included
    pPc,                \* where the running parse call stands
    pThrown,            \* what the last parse call threw
    pObs                \* observations of the last step of parse

piVars == <<pi, pPc, pThrown, pObs>>

VARIABLES
    rmd,                \* the last call on RuntimeMetaData: arguments and outcome
    st                  \* a SetTransition built by each of its two definitions

rmdVars == <<rmd>>
stVars == <<st>>

VARIABLES
    lts,                \* a ListTokenSource's fields
    lRet,               \* what the last call on the token source returned or threw
    lObs,               \* the calls made on the token source so far
    rtt,                \* a RuleTagToken and the text read from it
    ll                  \* the last call on the LL1Analyzer: arguments and result

ltsVars == <<lts, lRet, lObs>>
rttVars == <<rtt>>
llVars == <<ll>>

vars == <<lexVars, utsVars, piVars, rmdVars, stVars, ltsVars, rttVars, llVars>>

\* what the operations of one class leave alone: the other objects
notLexVars == <<utsVars, piVars, rmdVars, stVars, ltsVars, rttVars, llVars>>
notUtsVars == <<lexVars, piVars, rmdVars, stVars, ltsVars, rttVars, llVars>>
notPiVars == <<lexVars, utsVars, rmdVars, stVars, ltsVars, rttVars, llVars>>
notRmdVars == <<lexVars, utsVars, piVars, stVars, ltsVars, rttVars, llVars>>
notStVars == <<lexVars, utsVars, piVars, rmdVars, ltsVars, rttVars, llVars>>
notLtsVars == <<lexVars, utsVars, piVars, rmdVars, stVars, rttVars, llVars>>
notRttVars == <<lexVars, utsVars, piVars, rmdVars, stVars, ltsVars, llVars>>
notLlVars == <<lexVars, utsVars, piVars, rmdVars, stVars, ltsVars, rttVars>>

\* an object that is not constructed in the behaviours of a specification
UtsIdle ==
    /\ uts = [undefined |-> TRUE]
    /\ uRet = [undefined |-> TRUE]
    /\ uThrown = "none"
    /\ uObs = [undefined |-> TRUE]

PiIdle ==
    /\ pi = [undefined |-> TRUE]
    /\ pPc = "idle"
    /\ pThrown = "none"
    /\ pObs = [undefined |-> TRUE]

RmdIdle == rmd = [undefined |-> TRUE]

StIdle == st = [undefined |-> TRUE]

LtsIdle ==
    /\ lts = [undefined |-> TRUE]
    /\ lRet = [undefined |-> TRUE]
    /\ lObs = [undefined |-> TRUE]

RttIdle == rtt = [undefined |-> TRUE]

LlIdle == ll = [undefined |-> TRUE]

(***************************************************************************)
(* The character stream and the interpreter's line/column bookkeeping.     *)
(***************************************************************************)
\* CharStream.LA(1)
LA1(in) == IF in.index < Len(in.data) THEN in.data[in.index + 1] ELSE "EOF"

\* LexerATNSimulator.consume: one character, line and column kept
interpConsume(in, ip) ==
    [in |-> [in EXCEPT !.index = in.index + 1],
     ip |-> IF LA1(in) = NL THEN [line |-> ip.line + 1, column |-> 0]
            ELSE [ip EXCEPT !.column = ip.column + 1]]

RECURSIVE interpConsumeN(_, _, _)
interpConsumeN(in, ip, k) ==
    IF k = 0 THEN [in |-> in, ip |-> ip]
    ELSE LET r == interpConsume(in, ip) IN interpConsumeN(r.in, r.ip, k - 1)

(***************************************************************************)
(* Lexer: the pure parts of its methods.                                   *)
(***************************************************************************)
NewLexer ==
    [tokenStartCharIndex |-> -1, channel |-> 0, type |-> 0,
     currentTokenColumn |-> 0, currentTokenStartLine |-> 0,
     token |-> NoToken, hitEOF |-> FALSE,
     modeStack |-> <<>>, mode |-> DEFAULT_MODE, text |-> Null]

reset(lx) ==
    [lx EXCEPT !.token = NoToken, !.type = INVALID_TYPE,
               !.channel = DEFAULT_CHANNEL, !.tokenStartCharIndex = -1,
               !.currentTokenColumn = -1, !.currentTokenStartLine = -1,
               !.text = Null, !.hitEOF = FALSE, !.mode = DEFAULT_MODE,
               !.modeStack = <<>>]

skip(lx) == [lx EXCEPT !.type = SKIP]

more(lx) == [lx EXCEPT !.type = MORE]

mode(lx, m) == [lx EXCEPT !.mode = m]

\* mutant: the new mode is pushed instead of the current one
pushMode_PushesNew(lx, m) == mode([lx EXCEPT !.modeStack = Append(lx.modeStack, m)], m)

pushMode(lx, m) == mode([lx EXCEPT !.modeStack = Append(lx.modeStack, lx.mode)], m)

\* mutant: no check for the empty stack, pop() yields undefined (-1 here)
popMode_Unchecked(lx) ==
    IF Len(lx.modeStack) = 0
    THEN [lx |-> mode(lx, -1), ret |-> -1, err |-> "none"]
    ELSE LET top == lx.modeStack[Len(lx.modeStack)]
             popped == [lx EXCEPT !.modeStack = SubSeq(lx.modeStack, 1, Len(lx.modeStack) - 1)]
             after == mode(popped, top)
         IN [lx |-> after, ret |-> after.mode, err |-> "none"]

\* [lx, ret, err]: the lexer after the call, the value returned, the error thrown
popMode(lx) ==
    IF Len(lx.modeStack) = 0
    THEN [lx |-> lx, ret |-> -1, err |-> "Empty Stack"]
    ELSE LET top == lx.modeStack[Len(lx.modeStack)]
             popped == [lx EXCEPT !.modeStack = SubSeq(lx.modeStack, 1, Len(lx.modeStack) - 1)]
             after == mode(popped, top)
         IN [lx |-> after, ret |-> after.mode, err |-> "none"]

create(type, text, channel, start, stop, line, column) ==
    [type |-> type, text |-> text, channel |-> channel, start |-> start,
     stop |-> stop, line |-> line, column |-> column]

emitToken(lx, t) == [lx EXCEPT !.token = t]

emit(lx, in) ==
    emitToken(lx, create(lx.type, lx.text, lx.channel, lx.tokenStartCharIndex,
                         in.index - 1, lx.currentTokenStartLine, lx.currentTokenColumn))

\* mutant: the EOF token starts at the previous token's start
emitEOF_StaleStart(lx, in, ip) ==
    emitToken(lx, create(EOF, Null, DEFAULT_CHANNEL, lx.tokenStartCharIndex,
                         in.index - 1, ip.line, ip.column))

emitEOF(lx, in, ip) ==
    emitToken(lx, create(EOF, Null, DEFAULT_CHANNEL, in.index, in.index - 1,
                         ip.line, ip.column))

\* mutant: recover drops no character
recover_NoConsume(in, ip) == [in |-> in, ip |-> ip]

\* recover(re) for a LexerNoViableAltException
recover(in, ip) ==
    IF LA1(in) # "EOF" THEN interpConsume(in, ip) ELSE [in |-> in, ip |-> ip]

(***************************************************************************)
(* interpreter.match as the Lexer sees it: from the current position it    *)
(* either accepts adv characters of a rule of type ttype, whose lexer      *)
(* command cmd is then executed, or fails with no viable alternative       *)
(* after having looked at adv characters.  At the end of the input with    *)
(* nothing consumed it returns EOF.                                        *)
(***************************************************************************)
Commands ==
    {[op |-> o, arg |-> 0] : o \in {"none", "skip", "more", "popMode", "channel", "text"}}
    \cup {[op |-> "type", arg |-> t] : t \in CommandTypes}
    \cup {[op |-> o, arg |-> m] : o \in {"mode", "pushMode"}, m \in Modes}

MatchOutcomes(in, lx) ==
    LET rem == Len(in.data) - in.index
    IN {[kind |-> "accept", adv |-> k, cmd |-> c, ttype |-> t] :
            k \in 1..rem, t \in RuleTypes,
            c \in {d \in Commands : d.op = "pushMode" => Len(lx.modeStack) < MaxStack}}
       \cup (IF rem = 0
             THEN {[kind |-> "accept", adv |-> 0, cmd |-> [op |-> "none", arg |-> 0], ttype |-> EOF]}
             ELSE {})
       \cup {[kind |-> "noViableAlt", adv |-> j, cmd |-> [op |-> "none", arg |-> 0], ttype |-> SKIP] :
                j \in {i \in 0..rem : i > 0 \/ rem > 0}}

\* LexerAction.execute(lexer): [lx, err]
execute(cmd, lx) ==
    CASE cmd.op = "skip" -> [lx |-> skip(lx), err |-> "none"]
      [] cmd.op = "more" -> [lx |-> more(lx), err |-> "none"]
      [] cmd.op = "mode" -> [lx |-> mode(lx, cmd.arg), err |-> "none"]
      [] cmd.op = "pushMode" -> [lx |-> pushMode(lx, cmd.arg), err |-> "none"]
      [] cmd.op = "popMode" -> [lx |-> popMode(lx).lx, err |-> popMode(lx).err]
      [] cmd.op = "type" -> [lx |-> [lx EXCEPT !.type = cmd.arg], err |-> "none"]
      [] cmd.op = "channel" -> [lx |-> [lx EXCEPT !.channel = HIDDEN], err |-> "none"]
      [] cmd.op = "text" -> [lx |-> [lx EXCEPT !.text = "override"], err |-> "none"]
      [] OTHER -> [lx |-> lx, err |-> "none"]

(***************************************************************************)
(* Lexer.nextToken, step by step.                                          *)
(***************************************************************************)
NoMatch == [kind |-> "none", ttype |-> SKIP, err |-> "none"]

NewObs ==
    [markRet |-> 0, released |-> <<>>, errs |-> 0, recovers |-> 0, matches |-> 0,
     net |-> 0, segIdx |-> -1, segLine |-> -1, segCol |-> -1, mores |-> 0,
     hitAtEntry |-> FALSE, recovering |-> FALSE, inits |-> 0, popRet |-> -1,
     lastMore |-> FALSE, emitted |-> "none", lastOp |-> "new"]

\* the loop head of nextToken: the state a fresh token starts from
outerInit(lx, in, ip) ==
    [lx EXCEPT !.token = NoToken, !.channel = DEFAULT_CHANNEL,
               !.tokenStartCharIndex = in.index,
               !.currentTokenColumn = ip.column,
               !.currentTokenStartLine = ip.line,
               !.text = Null]

\* mutant: a SKIP result leaves the inner loop like an ordinary token
afterMatch_SkipEmits(lx, in, tt) ==
    LET l1 == IF LA1(in) = "EOF" THEN [lx EXCEPT !.hitEOF = TRUE] ELSE lx
        l2 == IF l1.type = INVALID_TYPE THEN [l1 EXCEPT !.type = tt] ELSE l1
    IN IF l2.type = MORE THEN [lx |-> l2, next |-> "inner"]
       ELSE [lx |-> IF l2.token = NoToken THEN emit(l2, in) ELSE l2, next |-> "finally"]

\* mutant: a MORE result restarts the outer loop
afterMatch_MoreRestarts(lx, in, tt) ==
    LET l1 == IF LA1(in) = "EOF" THEN [lx EXCEPT !.hitEOF = TRUE] ELSE lx
        l2 == IF l1.type = INVALID_TYPE THEN [l1 EXCEPT !.type = tt] ELSE l1
    IN IF l2.type \in {SKIP, MORE} THEN [lx |-> l2, next |-> "outer"]
       ELSE [lx |-> IF l2.token = NoToken THEN emit(l2, in) ELSE l2, next |-> "finally"]

\* after match returned or its LexerNoViableAltException was handled:
\* [lx, next], next being where nextToken goes on
afterMatch(lx, in, tt) ==
    LET l1 == IF LA1(in) = "EOF" THEN [lx EXCEPT !.hitEOF = TRUE] ELSE lx
        l2 == IF l1.type = INVALID_TYPE THEN [l1 EXCEPT !.type = tt] ELSE l1
    IN IF l2.type = SKIP THEN [lx |-> l2, next |-> "outer"]
       ELSE IF l2.type = MORE THEN [lx |-> l2, next |-> "inner"]
       ELSE [lx |-> IF l2.token = NoToken THEN emit(l2, in) ELSE l2, next |-> "finally"]

\* mutant: the catch clause handles every error
isNoViableAlt_CatchAll(err) == TRUE

\* the catch clause: e instanceof LexerNoViableAltException
isNoViableAlt(err) == err = "LexerNoViableAltException"

\* mutant: the marker is released after the loop, not in a finally block
finallyRelease_OnReturn(released, marker, pend) ==
    IF pend = "none" THEN Append(released, marker) ELSE released

\* the finally block: the markers released by this call
finallyRelease(released, marker, pend) == Append(released, marker)

nextToken_mark ==
    /\ UNCHANGED notLexVars
    /\ pc = "idle"
    /\ \E m \in Markers :
        /\ tokenStartMarker' = m
        /\ obs' = [obs EXCEPT !.markRet = m, !.released = <<>>, !.errs = 0,
                              !.recovers = 0, !.matches = 0, !.mores = 0,
                              !.inits = 0, !.hitAtEntry = lexer.hitEOF,
                              !.segIdx = -1, !.segLine = -1, !.segCol = -1,
                              !.recovering = FALSE, !.lastMore = FALSE,
                              !.emitted = "none", !.lastOp = "nextToken"]
    /\ pc' = "outer"
    /\ ret' = NoToken
    /\ thrown' = "none"
    /\ pending' = "none"
    /\ matchResult' = NoMatch
    /\ UNCHANGED <<lexer, input, interp>>

nextToken_outer ==
    /\ UNCHANGED notLexVars
    /\ pc = "outer"
    /\ IF lexer.hitEOF
       THEN /\ lexer' = emitEOF(lexer, input, interp)
            /\ pc' = "finally"
            /\ obs' = [obs EXCEPT !.emitted = "emitEOF"]
       ELSE /\ lexer' = outerInit(lexer, input, interp)
            /\ pc' = "inner"
            /\ obs' = [obs EXCEPT !.inits = IF obs.inits < 2 THEN obs.inits + 1 ELSE 2]
    /\ UNCHANGED <<input, interp, tokenStartMarker, matchResult, pending, ret, thrown>>

nextToken_match ==
    /\ UNCHANGED notLexVars
    /\ pc = "inner"
    /\ \E o \in MatchOutcomes(input, lexer) :
        LET l0 == [lexer EXCEPT !.type = INVALID_TYPE]
            r == interpConsumeN(input, interp, o.adv)
            x == execute(o.cmd, l0)
            net == IF o.kind # "accept" \/ x.err # "none" THEN 0
                   ELSE IF o.cmd.op = "pushMode" THEN 1
                   ELSE IF o.cmd.op = "popMode" THEN -1
                   ELSE 0
        IN /\ input' = r.in
           /\ interp' = r.ip
           /\ lexer' = IF o.kind = "accept" THEN x.lx ELSE l0
           /\ matchResult' =
                IF o.kind = "noViableAlt"
                THEN [kind |-> "threw", ttype |-> SKIP, err |-> "LexerNoViableAltException"]
                ELSE IF x.err # "none"
                THEN [kind |-> "threw", ttype |-> SKIP, err |-> x.err]
                ELSE [kind |-> "returned", ttype |-> o.ttype, err |-> "none"]
           /\ obs' = [obs EXCEPT
                        !.matches = obs.matches + 1, !.recovering = FALSE,
                        !.net = obs.net + net,
                        !.segIdx = IF obs.lastMore THEN obs.segIdx ELSE input.index,
                        !.segLine = IF obs.lastMore THEN obs.segLine ELSE interp.line,
                        !.segCol = IF obs.lastMore THEN obs.segCol ELSE interp.column,
                        !.mores = IF obs.lastMore THEN obs.mores ELSE 0]
    /\ pc' = "matched"
    /\ UNCHANGED <<tokenStartMarker, pending, ret, thrown>>

nextToken_afterMatch ==
    /\ UNCHANGED notLexVars
    /\ pc = "matched"
    /\ IF matchResult.kind = "threw" /\ ~isNoViableAlt(matchResult.err)
       THEN /\ pending' = matchResult.err
            /\ pc' = "finally"
            /\ UNCHANGED <<lexer, input, interp, obs>>
       ELSE LET nv == matchResult.kind = "threw"
                rc == IF nv THEN recover(input, interp)
                      ELSE [in |-> input, ip |-> interp]
                am == afterMatch(lexer, rc.in, matchResult.ttype)
            IN /\ input' = rc.in
               /\ interp' = rc.ip
               /\ lexer' = am.lx
               /\ pc' = am.next
               /\ pending' = pending
               /\ obs' = [obs EXCEPT
                            !.errs = IF nv THEN obs.errs + 1 ELSE obs.errs,
                            !.recovers = IF nv THEN obs.recovers + 1 ELSE obs.recovers,
                            !.recovering = nv,
                            !.lastMore = (am.lx.type = MORE),
                            !.mores = IF am.lx.type = MORE THEN obs.mores + 1 ELSE obs.mores,
                            !.emitted = IF am.lx.token # NoToken THEN "emit" ELSE "none"]
    /\ matchResult' = NoMatch
    /\ UNCHANGED <<tokenStartMarker, ret, thrown>>

nextToken_finally ==
    /\ UNCHANGED notLexVars
    /\ pc = "finally"
    /\ obs' = [obs EXCEPT !.released = finallyRelease(obs.released, tokenStartMarker, pending)]
    /\ pc' = "idle"
    /\ ret' = IF pending = "none" THEN lexer.token ELSE NoToken
    /\ thrown' = pending
    /\ pending' = "none"
    /\ UNCHANGED <<lexer, input, interp, tokenStartMarker, matchResult>>

(***************************************************************************)
(* The Lexer's other entry points, called between nextToken calls.         *)
(***************************************************************************)
InterpReset == [line |-> 1, column |-> 0]

Returned(op) ==
    /\ ret' = NoToken
    /\ thrown' = "none"
    /\ UNCHANGED <<pc, tokenStartMarker, matchResult, pending>>

Reset ==
    /\ UNCHANGED notLexVars
    /\ pc = "idle"
    /\ \E seekBack \in BOOLEAN :
        input' = IF seekBack THEN [input EXCEPT !.index = 0] ELSE input
    /\ lexer' = reset(lexer)
    /\ interp' = InterpReset
    /\ obs' = [NewObs EXCEPT !.lastOp = "reset"]
    /\ Returned("reset")

SetInputStream ==
    /\ UNCHANGED notLexVars
    /\ pc = "idle"
    /\ \E d \in Inputs : input' = [data |-> d, index |-> 0]
    /\ lexer' = reset(lexer)
    /\ interp' = InterpReset
    /\ obs' = [NewObs EXCEPT !.lastOp = "inputStream"]
    /\ Returned("inputStream")

CallMode ==
    /\ UNCHANGED notLexVars
    /\ pc = "idle"
    /\ \E m \in Modes : lexer' = mode(lexer, m)
    /\ obs' = [obs EXCEPT !.lastOp = "mode"]
    /\ UNCHANGED <<input, interp>>
    /\ Returned("mode")

CallPushMode ==
    /\ UNCHANGED notLexVars
    /\ pc = "idle"
    /\ Len(lexer.modeStack) < MaxStack
    /\ \E m \in Modes : lexer' = pushMode(lexer, m)
    /\ obs' = [obs EXCEPT !.net = obs.net + 1, !.lastOp = "pushMode"]
    /\ UNCHANGED <<input, interp>>
    /\ Returned("pushMode")

CallPopMode ==
    /\ UNCHANGED notLexVars
    /\ pc = "idle"
    /\ lexer' = popMode(lexer).lx
    /\ obs' = [obs EXCEPT !.net = IF popMode(lexer).err = "none" THEN obs.net - 1 ELSE obs.net,
                          !.popRet = popMode(lexer).ret, !.lastOp = "popMode"]
    /\ ret' = NoToken
    /\ thrown' = popMode(lexer).err
    /\ UNCHANGED <<input, interp, pc, tokenStartMarker, matchResult, pending>>

Init ==
    /\ lexer = NewLexer
    /\ \E d \in Inputs : input = [data |-> d, index |-> 0]
    /\ interp = InterpReset
    /\ pc = "idle"
    /\ tokenStartMarker = 0
    /\ matchResult = NoMatch
    /\ pending = "none"
    /\ ret = NoToken
    /\ thrown = "none"
    /\ obs = NewObs
    /\ UtsIdle
    /\ PiIdle
    /\ RmdIdle
    /\ StIdle
    /\ LtsIdle
    /\ RttIdle
    /\ LlIdle

Next ==
    \/ nextToken_mark
    \/ nextToken_outer
    \/ nextToken_match
    \/ nextToken_afterMatch
    \/ nextToken_finally
    \/ Reset
    \/ SetInputStream
    \/ CallMode
    \/ CallPushMode
    \/ CallPopMode

Spec == Init /\ [][Next]_vars

(***************************************************************************)
(* Properties of Lexer.nextToken.                                          *)
(***************************************************************************)
Running == pc \in {"outer", "inner", "matched", "finally"}
ReturnedFromNextToken == pc = "idle" /\ obs.lastOp = "nextToken"

\* C1: every nextToken call that marked the input releases exactly once,
\* with the marker mark() returned, on every exit path (token, EOF, rethrown
\* error), and not before it leaves.
C1_MarkReleased ==
    /\ Running => obs.released = <<>> /\ tokenStartMarker = obs.markRet
    /\ ReturnedFromNextToken => obs.released = <<obs.markRet>>

C1_Witness ==
    /\ ReturnedFromNextToken
    /\ thrown = "Empty Stack"
    /\ obs.markRet = 2
    /\ obs.released = <<2>>

\* C2: once hitEOF is set it stays set until reset() or the inputStream
\* setter; a nextToken call entered with it set returns an EOF token without
\* calling match, starting at input.index and stopping at input.index - 1,
\* and the index does not move while the flag is set.
C2_EofCallInv ==
    (ReturnedFromNextToken /\ obs.hitAtEntry) =>
        /\ thrown = "none"
        /\ ret # NoToken
        /\ ret.type = EOF
        /\ obs.matches = 0
        /\ ret.start = input.index
        /\ ret.stop = input.index - 1

C2_EofPinnedStep ==
    /\ (lexer.hitEOF /\ ~lexer'.hitEOF) => (Reset \/ SetInputStream)
    /\ (lexer.hitEOF /\ lexer'.hitEOF) => input'.index = input.index

C2_EofPinned == [](C2_EofCallInv) /\ [][C2_EofPinnedStep]_vars

C2_Witness ==
    /\ ReturnedFromNextToken
    /\ obs.hitAtEntry
    /\ ret # NoToken
    /\ ret.type = EOF
    /\ ret.start = 2
    /\ lexer.tokenStartCharIndex < 2

\* C3: with the default emit, nextToken never returns a SKIP or MORE token;
\* a SKIP result restarts the outer loop with nothing emitted, the loop head
\* re-initialising token start, channel and text; a MORE result leads to
\* another match before anything is emitted.
C3_NoSkipMoreInv ==
    /\ (ReturnedFromNextToken /\ thrown = "none") =>
            ret # NoToken /\ ret.type \notin {SKIP, MORE}
    /\ (pc = "finally" /\ pending = "none") =>
            lexer.token # NoToken /\ lexer.token.type \notin {SKIP, MORE}

C3_SkipMoreStep ==
    /\ (pc = "matched" /\ pc' # "finally" /\ lexer'.type = SKIP) =>
            pc' = "outer" /\ lexer'.token = NoToken /\ ret' = NoToken
    /\ (pc = "matched" /\ pc' # "finally" /\ lexer'.type = MORE) =>
            pc' = "inner" /\ lexer'.token = NoToken /\ ret' = NoToken
    /\ (pc = "matched" /\ lexer'.type \in {SKIP, MORE}) => pc' # "finally"
    /\ (pc = "outer" /\ ~lexer.hitEOF) =>
            /\ pc' = "inner"
            /\ lexer'.token = NoToken
            /\ lexer'.tokenStartCharIndex = input.index
            /\ lexer'.channel = DEFAULT_CHANNEL
            /\ lexer'.text = Null
    /\ (pc = "inner") => pc' = "matched" /\ obs'.matches = obs.matches + 1

C3_NoSkipMore == [](C3_NoSkipMoreInv) /\ [][C3_SkipMoreStep]_vars

C3_Witness ==
    /\ ReturnedFromNextToken
    /\ thrown = "none"
    /\ obs.inits = 2
    /\ obs.mores > 0
    /\ obs.emitted = "emit"
    /\ ret # NoToken
    /\ ret.start = 1

\* C4: between matches that end with MORE the token start (index, line,
\* column) is not re-initialised: the token emitted after one or more MORE
\* segments starts where the first of them began and stops at index - 1.
C4_MoreInv ==
    (pc = "finally" /\ pending = "none" /\ obs.emitted = "emit" /\ obs.mores > 0) =>
        /\ lexer.token.start = obs.segIdx
        /\ lexer.token.stop = input.index - 1
        /\ lexer.token.line = obs.segLine
        /\ lexer.token.column = obs.segCol

C4_MoreStep ==
    (pc = "matched" /\ lexer'.type = MORE) =>
        /\ lexer'.tokenStartCharIndex = lexer.tokenStartCharIndex
        /\ lexer'.currentTokenStartLine = lexer.currentTokenStartLine
        /\ lexer'.currentTokenColumn = lexer.currentTokenColumn
        /\ lexer'.tokenStartCharIndex = obs.segIdx

C4_MoreAccumulates == [](C4_MoreInv) /\ [][C4_MoreStep]_vars

C4_Witness ==
    /\ pc = "finally"
    /\ pending = "none"
    /\ obs.emitted = "emit"
    /\ obs.mores = 1
    /\ lexer.token.type \in RuleTypes
    /\ lexer.token.start = 0
    /\ lexer.token.stop = 1
    /\ lexer.token.line = 1
    /\ interp.line = 2

\* C5 (as stated): a LexerNoViableAltException from match is reported once,
\* one character is consumed unless LA(1) is EOF, nothing is emitted, and
\* nextToken matches again from the new position.
NoViableCaught ==
    pc = "matched" /\ matchResult.kind = "threw"
                   /\ matchResult.err = "LexerNoViableAltException"

C5_CatchStep ==
    NoViableCaught =>
        /\ obs'.errs = obs.errs + 1
        /\ obs'.recovers = obs.recovers + 1
        /\ input'.data = input.data
        /\ input'.index = input.index + (IF LA1(input) # "EOF" THEN 1 ELSE 0)
        /\ lexer'.token = NoToken
        /\ ret' = NoToken
        /\ pending' = "none"
        /\ pc' = "outer"

C5_RetryStep ==
    (obs.recovering /\ pc = "outer") =>
        /\ pc' = "inner"
        /\ lexer'.tokenStartCharIndex = input.index

C5_Original == [][C5_CatchStep /\ C5_RetryStep]_vars

\* C5 (amended): as above, but the retry happens only when LA(1) is not EOF
\* after recovery; at EOF nextToken returns an EOF token without another
\* match.  In neither case does nextToken throw.
C5_RetryOrEofStep ==
    (obs.recovering /\ pc = "outer") =>
        IF LA1(input) = "EOF"
        THEN /\ pc' = "finally"
             /\ pending' = "none"
             /\ lexer'.token # NoToken
             /\ lexer'.token.type = EOF
             /\ lexer'.token.start = input.index
             /\ obs'.matches = obs.matches
        ELSE /\ pc' = "inner"
             /\ lexer'.tokenStartCharIndex = input.index

C5_Amended == [][C5_CatchStep /\ C5_RetryOrEofStep]_vars

C5_Witness ==
    /\ pc = "finally"
    /\ obs.recovering
    /\ obs.errs = 2
    /\ obs.matches = 2
    /\ pending = "none"
    /\ lexer.token.type = EOF

\* C6: popMode on an empty mode stack throws 'Empty Stack' and leaves the
\* current mode and the empty stack as they were, called directly or by a
\* popMode lexer action.
C6_PopEmptyStep ==
    /\ (CallPopMode /\ Len(lexer.modeStack) = 0) =>
            /\ thrown' = "Empty Stack"
            /\ lexer'.mode = lexer.mode
            /\ lexer'.modeStack = <<>>
    /\ (pc = "inner" /\ matchResult'.err = "Empty Stack") =>
            /\ lexer.modeStack = <<>>
            /\ lexer'.mode = lexer.mode
            /\ lexer'.modeStack = <<>>
    /\ (pc = "idle" /\ obs'.lastOp = "popMode" /\ thrown' = "none") =>
            Len(lexer.modeStack) > 0

C6_PopEmpty == [][C6_PopEmptyStep]_vars

C6_Witness ==
    /\ pc = "idle"
    /\ obs.lastOp = "popMode"
    /\ thrown = "Empty Stack"
    /\ lexer.mode = 1
    /\ lexer.modeStack = <<>>

\* C7: pushMode(m) then popMode() returns the mode held before the push
\* and restores mode and stack; mode(m) changes the mode only; a new or
\* reset lexer is in mode 0 with an empty stack; the stack depth is the
\* number of pushMode calls minus the successful popMode calls since reset.
C7_ModeStack ==
    /\ \A m \in Modes :
        LET p == pushMode(lexer, m)
            q == popMode(p)
        IN /\ p.mode = m
           /\ Len(p.modeStack) = Len(lexer.modeStack) + 1
           /\ q.err = "none"
           /\ q.ret = lexer.mode
           /\ q.lx.mode = lexer.mode
           /\ q.lx.modeStack = lexer.modeStack
    /\ \A m \in Modes :
        /\ mode(lexer, m).mode = m
        /\ mode(lexer, m).modeStack = lexer.modeStack
    /\ obs.lastOp \in {"new", "reset", "inputStream"} =>
            lexer.mode = DEFAULT_MODE /\ lexer.modeStack = <<>>
    /\ Len(lexer.modeStack) = obs.net

C7_Witness ==
    /\ pc = "idle"
    /\ obs.lastOp = "popMode"
    /\ thrown = "none"
    /\ obs.popRet = 1
    /\ lexer.mode = 1
    /\ obs.net = 0

\* C8: an error of match that is no LexerNoViableAltException leaves
\* nextToken as it is: no listener is notified, recover is not called.
C8_RethrowStep ==
    /\ (pc = "matched" /\ matchResult.kind = "threw"
                       /\ matchResult.err # "LexerNoViableAltException") =>
            /\ pending' = matchResult.err
            /\ pc' = "finally"
            /\ obs'.errs = obs.errs
            /\ obs'.recovers = obs.recovers
            /\ input' = input
            /\ interp' = interp
            /\ lexer' = lexer
    /\ (pc = "finally" /\ pending # "none") =>
            /\ thrown' = pending
            /\ ret' = NoToken
            /\ pc' = "idle"

C8_Rethrown == [][C8_RethrowStep]_vars

C8_Witness ==
    /\ ReturnedFromNextToken
    /\ thrown = "Empty Stack"
    /\ obs.errs = 0
    /\ obs.recovers = 0
    /\ input.index = 2

(***************************************************************************)
(* UnbufferedTokenStream.  The stream is the record                        *)
(*   [tokens, n, p, numMarkers, lastToken, lastTokenBufferStart,           *)
(*    currentTokenIndex, tokenSource].                                     *)
(* tokens is the buffer array (element i of the array is tokens[i + 1]);   *)
(* entries at n and beyond are stale.  A token is [ord, type, tokenIndex], *)
(* ord being its position in what the source yields.  The token source     *)
(* [len, i] yields len ordinary tokens and then EOF tokens.                *)
(***************************************************************************)
TokenType(ts, k) == IF k < ts.len THEN 1 ELSE EOF

\* TokenSource.nextToken: [tok, ts]
sourceNextToken(ts) ==
    [tok |-> [ord |-> ts.i, type |-> TokenType(ts, ts.i), tokenIndex |-> -1],
     ts |-> [ts EXCEPT !.i = ts.i + 1]]

getBufferStartIndex(u) == u.currentTokenIndex - u.p

\* tokens[i] = t on the array
ArrayPut(a, i, t) == IF i < Len(a) THEN [a EXCEPT ![i + 1] = t] ELSE Append(a, t)

\* tokens.copyWithin(0, from, to)
copyWithin(a, from, to) ==
    [i \in 1..Len(a) |-> IF i <= to - from THEN a[i + from] ELSE a[i]]

\* add that numbers a token by its place in the buffer
add_IndexInBuffer(u, t) ==
    [u EXCEPT !.tokens = ArrayPut(u.tokens, u.n, [t EXCEPT !.tokenIndex = u.n]),
              !.n = u.n + 1]

add(u, t) ==
    [u EXCEPT !.tokens = ArrayPut(u.tokens, u.n,
                                  [t EXCEPT !.tokenIndex = getBufferStartIndex(u) + u.n]),
              !.n = u.n + 1]

\* fill that does not stop at a buffered EOF token
RECURSIVE fill_PastEof(_, _)
fill_PastEof(u, k) ==
    IF k <= 0 THEN u
    ELSE LET r == sourceNextToken(u.tokenSource)
         IN fill_PastEof(add([u EXCEPT !.tokenSource = r.ts], r.tok), k - 1)

RECURSIVE fill(_, _)
fill(u, k) ==
    IF k <= 0 THEN u
    ELSE IF u.n > 0 /\ u.tokens[u.n].type = EOF THEN u
    ELSE LET r == sourceNextToken(u.tokenSource)
         IN fill(add([u EXCEPT !.tokenSource = r.ts], r.tok), k - 1)

\* sync that asks for one element fewer
sync_OneShort(u, want) ==
    LET need == (u.p + want - 1) - u.n
    IN IF need > 0 THEN fill(u, need) ELSE u

sync(u, want) ==
    LET need == (u.p + want - 1) - u.n + 1
    IN IF need > 0 THEN fill(u, need) ELSE u

\* the constructor, over a token source of len ordinary tokens
NewStream(len) ==
    fill([tokens |-> <<>>, n |-> 0, p |-> 0, numMarkers |-> 0,
          lastToken |-> Undefined, lastTokenBufferStart |-> Undefined,
          currentTokenIndex |-> 0, tokenSource |-> [len |-> len, i |-> 0]], 1)

\* every operation gives [u, ret, err]
Ok(u, r) == [u |-> u, ret |-> r, err |-> "none"]
Throw(u, e) == [u |-> u, ret |-> Undefined, err |-> e]

\* LT that returns the slot it computed even when it lies beyond the buffer
LT_AbsentSlot(u, i) ==
    IF i = -1 THEN Ok(u, u.lastToken)
    ELSE LET u1 == sync(u, i)
             index == u1.p + i - 1
         IN IF index < 0 THEN Throw(u1, "LT gives negative index")
            ELSE IF index >= u1.n THEN Ok(u1, Undefined)
            ELSE Ok(u1, u1.tokens[index + 1])

LT(u, i) ==
    IF i = -1 THEN Ok(u, u.lastToken)
    ELSE LET u1 == sync(u, i)
             index == u1.p + i - 1
         IN IF index < 0 THEN Throw(u1, "LT gives negative index")
            ELSE IF index >= u1.n THEN Ok(u1, u1.tokens[u1.n])
            ELSE Ok(u1, u1.tokens[index + 1])

LA(u, i) ==
    LET r == LT(u, i)
    IN IF r.err # "none" THEN r ELSE Ok(r.u, r.ret.type)

\* consume that does not track the consumed token for LT(-1)
consume_KeepsLastToken(u) ==
    LET la == LA(u, 1)
        u1 == la.u
        u3 == IF u1.p = u1.n - 1 /\ u1.numMarkers = 0
              THEN [u1 EXCEPT !.n = 0, !.p = -1, !.lastTokenBufferStart = u1.lastToken]
              ELSE u1
        u4 == [u3 EXCEPT !.p = u3.p + 1, !.currentTokenIndex = u3.currentTokenIndex + 1]
    IN IF la.ret = EOF THEN Throw(u1, "cannot consume EOF")
       ELSE Ok(sync(u4, 1), Undefined)

consume(u) ==
    LET la == LA(u, 1)
        u1 == la.u
        u2 == [u1 EXCEPT !.lastToken = u1.tokens[u1.p + 1]]
        u3 == IF u2.p = u2.n - 1 /\ u2.numMarkers = 0
              THEN [u2 EXCEPT !.n = 0, !.p = -1, !.lastTokenBufferStart = u2.lastToken]
              ELSE u2
        u4 == [u3 EXCEPT !.p = u3.p + 1, !.currentTokenIndex = u3.currentTokenIndex + 1]
    IN IF la.ret = EOF THEN Throw(u1, "cannot consume EOF")
       ELSE Ok(sync(u4, 1), Undefined)

mark(u) ==
    LET u1 == IF u.numMarkers = 0
              THEN [u EXCEPT !.lastTokenBufferStart = u.lastToken] ELSE u
    IN Ok([u1 EXCEPT !.numMarkers = u.numMarkers + 1], -u.numMarkers - 1)

\* release that rewinds index to the start of the buffer when it shifts it
release_Rewinds(u, marker) ==
    LET expectedMark == -u.numMarkers
        u1 == [u EXCEPT !.numMarkers = u.numMarkers - 1]
        u2 == IF u1.p > 0
              THEN [u1 EXCEPT !.tokens = copyWithin(u1.tokens, u1.p, u1.n),
                              !.n = u1.n - u1.p, !.p = 0,
                              !.currentTokenIndex = getBufferStartIndex(u1)]
              ELSE u1
    IN IF marker # expectedMark
       THEN Throw(u, "release() called with an invalid marker.")
       ELSE IF u1.numMarkers = 0
       THEN Ok([u2 EXCEPT !.lastTokenBufferStart = u2.lastToken], Undefined)
       ELSE Ok(u1, Undefined)

release(u, marker) ==
    LET expectedMark == -u.numMarkers
        u1 == [u EXCEPT !.numMarkers = u.numMarkers - 1]
        u2 == IF u1.p > 0
              THEN [u1 EXCEPT !.tokens = copyWithin(u1.tokens, u1.p, u1.n),
                              !.n = u1.n - u1.p, !.p = 0]
              ELSE u1
    IN IF marker # expectedMark
       THEN Throw(u, "release() called with an invalid marker.")
       ELSE IF u1.numMarkers = 0
       THEN Ok([u2 EXCEPT !.lastTokenBufferStart = u2.lastToken], Undefined)
       ELSE Ok(u1, Undefined)

Min(a, b) == IF a < b THEN a ELSE b

\* seek without the clamp after a forward sync
seek_NoClamp(u, index0) ==
    LET fwd == index0 > u.currentTokenIndex
        u1 == IF fwd THEN sync(u, index0 - u.currentTokenIndex) ELSE u
        index == index0
        i == index - getBufferStartIndex(u1)
    IN IF index0 = u.currentTokenIndex THEN Ok(u, Undefined)
       ELSE IF i < 0 THEN Throw(u1, "cannot seek to negative index")
       ELSE IF i >= u1.n THEN Throw(u1, "seek to index outside buffer")
       ELSE Ok([u1 EXCEPT !.p = i, !.currentTokenIndex = index,
                          !.lastToken = IF i = 0 THEN u1.lastTokenBufferStart
                                        ELSE u1.tokens[i]],
               Undefined)

seek(u, index0) ==
    LET fwd == index0 > u.currentTokenIndex
        u1 == IF fwd THEN sync(u, index0 - u.currentTokenIndex) ELSE u
        index == IF fwd THEN Min(index0, getBufferStartIndex(u1) + u1.n - 1) ELSE index0
        i == index - getBufferStartIndex(u1)
    IN IF index0 = u.currentTokenIndex THEN Ok(u, Undefined)
       ELSE IF i < 0 THEN Throw(u1, "cannot seek to negative index")
       ELSE IF i >= u1.n THEN Throw(u1, "seek to index outside buffer")
       ELSE Ok([u1 EXCEPT !.p = i, !.currentTokenIndex = index,
                          !.lastToken = IF i = 0 THEN u1.lastTokenBufferStart
                                        ELSE u1.tokens[i]],
               Undefined)

get(u, i) ==
    LET bufferStartIndex == getBufferStartIndex(u)
    IN IF i < bufferStartIndex \/ i >= bufferStartIndex + u.n
       THEN Throw(u, "get outside buffer")
       ELSE Ok(u, u.tokens[i - bufferStartIndex + 1])

(***************************************************************************)
(* The calls a client makes on an UnbufferedTokenStream.                   *)
(***************************************************************************)
LookArgs == -1..MaxLook
MarkerArgs == (-MaxMarkers)..MaxMarkers
IndexArgs == 0..(MaxTokens + 1)

Last(q) == q[Len(q)]
ButLast(q) == SubSeq(q, 1, Len(q) - 1)

\* the markers outstanding after the call op with outcome r
MarksAfter(r, op) ==
    IF r.err # "none" THEN uObs.marks
    ELSE IF op = "mark" THEN Append(uObs.marks, r.ret)
    ELSE IF op = "release" /\ uObs.marks # <<>> THEN ButLast(uObs.marks)
    ELSE uObs.marks

\* the index at which the oldest outstanding marker was taken; it is kept for
\* the one state after the release() that leaves no marker outstanding, -1 if
\* there is no such marker
MarkIdxAfter(r, op) ==
    IF uObs.marks # <<>> THEN uObs.markIdx
    ELSE IF op = "mark" /\ r.err = "none" THEN uts.currentTokenIndex
    ELSE -1

ObsAfter(r, op, arg) ==
    [call |-> [op |-> op, arg |-> arg], marks |-> MarksAfter(r, op),
     markIdx |-> MarkIdxAfter(r, op)]

DoLT ==
    /\ UNCHANGED notUtsVars
    /\ \E i \in LookArgs :
        \E r \in {LT(uts, i)} :
            /\ uts' = r.u
            /\ uRet' = r.ret
            /\ uThrown' = r.err
            /\ uObs' = ObsAfter(r, "LT", i)

DoLA ==
    /\ UNCHANGED notUtsVars
    /\ \E i \in LookArgs \ {-1} :
        \E r \in {LA(uts, i)} :
            /\ uts' = r.u
            /\ uRet' = r.ret
            /\ uThrown' = r.err
            /\ uObs' = ObsAfter(r, "LA", i)

DoConsume ==
    /\ UNCHANGED notUtsVars
    /\ \E r \in {consume(uts)} :
        /\ uts' = r.u
        /\ uRet' = r.ret
        /\ uThrown' = r.err
        /\ uObs' = ObsAfter(r, "consume", 0)

DoMark ==
    /\ UNCHANGED notUtsVars
    /\ uts.numMarkers < MaxMarkers
    /\ \E r \in {mark(uts)} :
        /\ uts' = r.u
        /\ uRet' = r.ret
        /\ uThrown' = r.err
        /\ uObs' = ObsAfter(r, "mark", 0)

DoRelease ==
    /\ UNCHANGED notUtsVars
    /\ \E m \in MarkerArgs :
        \E r \in {release(uts, m)} :
            /\ uts' = r.u
            /\ uRet' = r.ret
            /\ uThrown' = r.err
            /\ uObs' = ObsAfter(r, "release", m)

DoSeek ==
    /\ UNCHANGED notUtsVars
    /\ \E j \in IndexArgs :
        \E r \in {seek(uts, j)} :
            /\ uts' = r.u
            /\ uRet' = r.ret
            /\ uThrown' = r.err
            /\ uObs' = ObsAfter(r, "seek", j)

DoGet ==
    /\ UNCHANGED notUtsVars
    /\ \E i \in IndexArgs :
        \E r \in {get(uts, i)} :
            /\ uts' = r.u
            /\ uRet' = r.ret
            /\ uThrown' = r.err
            /\ uObs' = ObsAfter(r, "get", i)

LexIdle ==
    /\ lexer = NewLexer
    /\ input = [data |-> <<>>, index |-> 0]
    /\ interp = InterpReset
    /\ pc = "idle"
    /\ tokenStartMarker = 0
    /\ matchResult = NoMatch
    /\ pending = "none"
    /\ ret = NoToken
    /\ thrown = "none"
    /\ obs = NewObs

UInit ==
    /\ \E len \in 0..MaxTokens : uts = NewStream(len)
    /\ uRet = Undefined
    /\ uThrown = "none"
    /\ uObs = [call |-> [op |-> "new", arg |-> 0], marks |-> <<>>,
               markIdx |-> -1]
    /\ LexIdle
    /\ PiIdle
    /\ RmdIdle
    /\ StIdle
    /\ LtsIdle
    /\ RttIdle
    /\ LlIdle

UNext ==
    \/ DoLT
    \/ DoLA
    \/ DoConsume
    \/ DoMark
    \/ DoRelease
    \/ DoSeek
    \/ DoGet

SpecUTS == UInit /\ [][UNext]_vars

(***************************************************************************)
(* Properties of UnbufferedTokenStream.                                    *)
(***************************************************************************)
\* C9: whenever index > 0, LT(-1) is the token just before LT(1) in the
\* stream, the one whose tokenIndex is index - 1.
C9_LastTokenPrecedes ==
    uts.currentTokenIndex > 0 =>
        /\ LT(uts, -1).ret # Undefined
        /\ LT(uts, -1).ret.ord = uts.currentTokenIndex - 1
        /\ LT(uts, -1).ret.tokenIndex = uts.currentTokenIndex - 1

\* C10: release(m) succeeds only for the marker of the most recent mark()
\* still outstanding; any other release throws and leaves numMarkers, p, n
\* and the buffer alone; numMarkers is never negative.
C10_ReleaseStep ==
    (uObs'.call.op = "release" /\ DoRelease) =>
        LET m == uObs'.call.arg
            valid == uObs.marks # <<>> /\ m = Last(uObs.marks)
        IN /\ (uThrown' = "none") <=> valid
           /\ ~valid => /\ uThrown' = "release() called with an invalid marker."
                        /\ uts' = uts

C10_ReleaseGuarded == [](uts.numMarkers >= 0) /\ [][C10_ReleaseStep]_vars

\* C11 as stated: a balanced mark(); ops; release(m) leaves index equal to
\* its value before mark(), whatever ops (LT/LA, consume, seek, nested
\* balanced pairs) did in between.  Checked for the outermost pair.
C11_Original ==
    (uObs.call.op = "release" /\ uThrown = "none" /\ uObs.marks = <<>>
        /\ uObs.markIdx # -1) =>
        uts.currentTokenIndex = uObs.markIdx

\* C11 amended: mark() and release(m) themselves never move index, so a
\* balanced mark(); ops; release(m) leaves index where ops left it (equal to
\* its value before mark() only when ops brought it back there).
C11_KeepIndexStep ==
    uObs'.call.op \in {"mark", "release"} =>
        uts'.currentTokenIndex = uts.currentTokenIndex

C11_MarkReleaseKeepIndex == [][C11_KeepIndexStep]_vars

C11_Witness ==
    /\ uObs.call.op = "release"
    /\ uThrown = "none"
    /\ uObs.marks = <<>>
    /\ uObs.markIdx # -1
    /\ uts.currentTokenIndex = uObs.markIdx + 1

\* C12: seek(i) with i greater than the current index never raises; the
\* target is clamped to the absolute index of the last buffered token, and
\* current index <= new index <= i.
C12_SeekForwardStep ==
    (uObs'.call.op = "seek" /\ uObs'.call.arg > uts.currentTokenIndex) =>
        /\ uThrown' = "none"
        /\ uts.currentTokenIndex <= uts'.currentTokenIndex
        /\ uts'.currentTokenIndex <= uObs'.call.arg
        /\ uts'.currentTokenIndex =
               Min(uObs'.call.arg, getBufferStartIndex(uts') + uts'.n - 1)

C12_SeekForwardClamps == [][C12_SeekForwardStep]_vars

C12_Witness ==
    /\ uObs.call.op = "seek"
    /\ uThrown = "none"
    /\ uts.currentTokenIndex > 0
    /\ uObs.call.arg > uts.currentTokenIndex + 1
    /\ uts.p = uts.n - 1
    /\ uts.tokens[uts.p + 1].type = EOF

\* C26: seek(i) with i greater than the current index positions the stream
\* exactly at i (index = i and LT(1).tokenIndex = i) whenever the token
\* source yields a token with absolute index i, the EOF token included; only
\* targets beyond the EOF token are clamped.
C26_SeekExactStep ==
    (/\ uObs'.call.op = "seek"
     /\ uObs'.call.arg > uts.currentTokenIndex
     /\ uObs'.call.arg <= uts.tokenSource.len) =>
        /\ uThrown' = "none"
        /\ uts'.currentTokenIndex = uObs'.call.arg
        /\ LT(uts', 1).ret.tokenIndex = uObs'.call.arg

C26_SeekForwardExact == [][C26_SeekExactStep]_vars

\* seek(j) succeeds on u and leaves index = j with LT(1).tokenIndex = j
SeeksTo(u, j) ==
    /\ seek(u, j).err = "none"
    /\ seek(u, j).u.currentTokenIndex = j
    /\ LT(seek(u, j).u, 1).ret.tokenIndex = j

\* C27: while a marker is outstanding no buffered token is discarded: from
\* the index of the outermost mark() to the last buffered token, and so to
\* every index reached by consume() since, seek(j) succeeds and leaves
\* index = j with LT(1).tokenIndex = j; a call that leaves a marker
\* outstanding, the release of an inner marker included, keeps the buffer's
\* start and every buffered token.
C27_KeepStep ==
    (uObs.marks # <<>> /\ uObs'.marks # <<>>) =>
        /\ getBufferStartIndex(uts') = getBufferStartIndex(uts)
        /\ uts'.n >= uts.n
        /\ \A k \in 1..uts.n : uts'.tokens[k] = uts.tokens[k]

C27_SeekBack ==
    uObs.marks # <<>> =>
        /\ getBufferStartIndex(uts) <= uObs.markIdx
        /\ \A j \in uObs.markIdx..(getBufferStartIndex(uts) + uts.n - 1) : SeeksTo(uts, j)

C27_MarkedTokensKept == []C27_SeekBack /\ [][C27_KeepStep]_vars

\* the same while release() was only ever called with a marker outstanding
\* (numMarkers then counts the markers outstanding)
MarkersCounted == uts.numMarkers = Len(uObs.marks)

MarkedTokensKeptWhileCounted ==
    /\ [](MarkersCounted => C27_SeekBack)
    /\ [][(MarkersCounted /\ MarkersCounted') => C27_KeepStep]_vars

\* C28: after the constructor and after every call of LT, LA, consume, mark,
\* release, seek or get that returns normally, 0 <= p < n.
C28_PInBuffer ==
    uThrown = "none" => (0 <= uts.p /\ uts.p < uts.n)

C28_Witness ==
    /\ uObs.call.op = "consume"
    /\ uThrown = "none"
    /\ uts.currentTokenIndex = 2
    /\ uts.p = 0
    /\ uts.n = 1

C30_EofStays ==
    /\ uts.tokenSource.i <= uts.tokenSource.len + 1
    /\ uts.tokenSource.i = uts.tokenSource.len + 1 =>
          /\ uts.n > 0
          /\ uts.tokens[uts.n].type = EOF
          /\ uts.tokens[uts.n].ord = uts.tokenSource.len

C30_EofStep ==
    uts.tokenSource.i = uts.tokenSource.len + 1 => uts'.tokenSource = uts.tokenSource

C30_EofPulledOnce == []C30_EofStays /\ [][C30_EofStep]_vars

C30_Witness ==
    /\ uObs.call.op = "LT"
    /\ uObs.call.arg = 2
    /\ uThrown = "none"
    /\ uts.tokenSource.len > 0
    /\ uts.tokenSource.i = uts.tokenSource.len + 1
    /\ uts.p = uts.n - 1
    /\ uRet.type = EOF

\* C31: LT(k) for k >= 1 never throws and never returns an absent buffer
\* slot: it returns the token k - 1 places ahead of the current position,
\* and the EOF token (the last buffered token) when the token source is
\* exhausted fewer than k tokens ahead, so that LA(k) is then Token.EOF.
C31_LookaheadDefined ==
    (uObs.call.op \in {"LT", "LA"} /\ uObs.call.arg >= 1) =>
        LET ahead == uts.currentTokenIndex + uObs.call.arg - 1
            pastEnd == ahead >= uts.tokenSource.len
        IN  /\ uThrown = "none"
            /\ uObs.call.op = "LT" =>
                  /\ uRet \in {uts.tokens[k] : k \in 1..uts.n}
                  /\ uRet.tokenIndex = Min(ahead, uts.tokenSource.len)
                  /\ pastEnd => (uRet.type = EOF /\ uRet = uts.tokens[uts.n])
                  /\ ~pastEnd => uRet.type # EOF
            /\ uObs.call.op = "LA" => (uRet = EOF <=> pastEnd)

C31_Witness ==
    /\ uObs.call.op = "LA"
    /\ uObs.call.arg = 2
    /\ uThrown = "none"
    /\ uts.currentTokenIndex = uts.tokenSource.len
    /\ uts.currentTokenIndex > 0
    /\ uRet = EOF

\* C32: consume() when LA(1) is EOF throws 'cannot consume EOF' and leaves
\* index, p, n, numMarkers and LT(-1) unchanged; when LA(1) is not EOF it
\* advances index by exactly 1 and makes the consumed token the new LT(-1).
C32_ConsumeStep ==
    uObs'.call.op = "consume" =>
        IF LA(uts, 1).ret = EOF
        THEN /\ uThrown' = "cannot consume EOF"
             /\ uts'.currentTokenIndex = uts.currentTokenIndex
             /\ uts'.p = uts.p
             /\ uts'.n = uts.n
             /\ uts'.numMarkers = uts.numMarkers
             /\ LT(uts', -1).ret = LT(uts, -1).ret
        ELSE /\ uThrown' = "none"
             /\ uts'.currentTokenIndex = uts.currentTokenIndex + 1
             /\ LT(uts', -1).ret = LT(uts, 1).ret

C32_ConsumeOrThrow == [][C32_ConsumeStep]_vars

C32_Witness ==
    /\ uObs.call.op = "consume"
    /\ uThrown = "cannot consume EOF"
    /\ uts.currentTokenIndex = 2
    /\ LT(uts, -1).ret.tokenIndex = 1
    /\ uts.numMarkers > 0

(***************************************************************************)
(* ParserInterpreter.  It walks an ATN; the one here has two rules,        *)
(*   r0 : ( r1 | 'a' )* ( ) ;      r1 : {action} {pred}? 'b' ;             *)
(* neither a precedence rule.  States 1 and 4 are decision states with two *)
(* transitions, state 5 is a decision state (a block start) with one.      *)
(* A transition is [type, target, label, followState].                     *)
(***************************************************************************)
Tr(type, target, label, follow) ==
    [type |-> type, target |-> target, label |-> label, followState |-> follow]

atnStates ==
    [n \in 0..11 |->
        CASE n = 0 -> [stateType |-> "RULE_START", ruleIndex |-> 0, decision |-> -1,
                       transitions |-> <<Tr("EPSILON", 1, "", -1)>>]
          [] n = 1 -> [stateType |-> "BLOCK_START", ruleIndex |-> 0, decision |-> 0,
                       transitions |-> <<Tr("EPSILON", 2, "", -1), Tr("EPSILON", 3, "", -1)>>]
          [] n = 2 -> [stateType |-> "BASIC", ruleIndex |-> 0, decision |-> -1,
                       transitions |-> <<Tr("RULE", 7, "", 4)>>]
          [] n = 3 -> [stateType |-> "BASIC", ruleIndex |-> 0, decision |-> -1,
                       transitions |-> <<Tr("ATOM", 4, "a", -1)>>]
          [] n = 4 -> [stateType |-> "STAR_LOOP_ENTRY", ruleIndex |-> 0, decision |-> 1,
                       transitions |-> <<Tr("EPSILON", 1, "", -1), Tr("EPSILON", 5, "", -1)>>]
          [] n = 5 -> [stateType |-> "BLOCK_START", ruleIndex |-> 0, decision |-> 2,
                       transitions |-> <<Tr("EPSILON", 6, "", -1)>>]
          [] n = 6 -> [stateType |-> "RULE_STOP", ruleIndex |-> 0, decision |-> -1,
                       transitions |-> <<>>]
          [] n = 7 -> [stateType |-> "RULE_START", ruleIndex |-> 1, decision |-> -1,
                       transitions |-> <<Tr("EPSILON", 8, "", -1)>>]
          [] n = 8 -> [stateType |-> "BASIC", ruleIndex |-> 1, decision |-> -1,
                       transitions |-> <<Tr("ACTION", 9, "", -1)>>]
          [] n = 9 -> [stateType |-> "BASIC", ruleIndex |-> 1, decision |-> -1,
                       transitions |-> <<Tr("PREDICATE", 10, "", -1)>>]
          [] n = 10 -> [stateType |-> "BASIC", ruleIndex |-> 1, decision |-> -1,
                        transitions |-> <<Tr("ATOM", 11, "b", -1)>>]
          [] OTHER -> [stateType |-> "RULE_STOP", ruleIndex |-> 1, decision |-> -1,
                       transitions |-> <<>>]]

RuleIndexes == {0, 1}
ruleToStartState == [r \in RuleIndexes |-> IF r = 0 THEN 0 ELSE 7]
ruleToStopState == [r \in RuleIndexes |-> IF r = 0 THEN 6 ELSE 11]
isPrecedenceRule == [r \in RuleIndexes |-> FALSE]
Decisions == {0, 1}          \* the decisions with more than one alternative
Alts == {1, 2}
INVALID_STATE_NUMBER == -1

isDecisionState(p) == atnStates[p].decision # -1

PTokenTypes == {"a", "b"}
PInputs == SeqsUpTo(PTokenTypes, MaxPInput)

\* errors: a RecognitionException carries an offending token and, for an
\* InputMismatchException, the expected tokens; either may be missing
RecognitionKinds ==
    {"InputMismatchException", "NoViableAltException", "FailedPredicateException"}
NoErr == [kind |-> "none", offendingToken |-> FALSE, expectedTokens |-> FALSE]
PlainError == [kind |-> "Error", offendingToken |-> FALSE, expectedTokens |-> FALSE]
RecEx(kind) ==
    {[kind |-> kind, offendingToken |-> t, expectedTokens |-> x] :
        t \in BOOLEAN, x \in BOOLEAN}
isRecognitionException(e) == e.kind \in RecognitionKinds

\* the token stream of the parser: LA(1), index, consume
pLA1(par) == IF par.idx < Len(par.tokens) THEN par.tokens[par.idx + 1] ELSE "EOF"
pConsume(par) == IF par.idx < Len(par.tokens) THEN [par EXCEPT !.idx = par.idx + 1] ELSE par

\* the current context is the top of the chain of contexts, null if there is none
context(par) == par.ctx[Len(par.ctx)]
hasContext(par) == par.ctx # <<>>
\* a context with its chain of parents below it; parent is a chain, <<>> for null
createInterpreterRuleContext(parent, invokingStateNumber, ruleIndex) ==
    Append(parent, [ruleIndex |-> ruleIndex, invokingState |-> invokingStateNumber,
                    exception |-> "none"])

\* RuleContext.isEmpty(), the method
isEmpty(c) == c.invokingState = -1

\* this.context?.isEmpty as parse reads it: the member itself, not its result;
\* a method is a function object and so is truthy whenever the context exists
isEmptyMember(par) == hasContext(par)

\* Parser.enterRule / Parser.exitRule
enterRule(par, localctx, state) ==
    [par EXCEPT !.state = state, !.ctx = localctx]
exitRule(par) ==
    [par EXCEPT !.state = context(par).invokingState,
                !.ctx = SubSeq(par.ctx, 1, Len(par.ctx) - 1)]

NewParser(tokens) ==
    [state |-> -1, ctx |-> <<>>, idx |-> 0, tokens |-> tokens,
     overrideDecision |-> -1, overrideDecisionInputIndex |-> -1,
     overrideDecisionAlt |-> -1, overrideDecisionReached |-> FALSE]

\* Parser.reset, then the interpreter's own fields
pReset(par) ==
    [par EXCEPT !.state = -1, !.ctx = <<>>, !.idx = 0,
                !.overrideDecisionReached = FALSE]

\* addDecisionOverride that also re-arms a consumed override
addDecisionOverride_Rearms(par, decision, tokenIndex, forcedAlt) ==
    [par EXCEPT !.overrideDecision = decision,
                !.overrideDecisionInputIndex = tokenIndex,
                !.overrideDecisionAlt = forcedAlt,
                !.overrideDecisionReached = FALSE]

addDecisionOverride(par, decision, tokenIndex, forcedAlt) ==
    [par EXCEPT !.overrideDecision = decision,
                !.overrideDecisionInputIndex = tokenIndex,
                !.overrideDecisionAlt = forcedAlt]

\* errorHandler.sync: returns, having consumed a token or not, or throws
errorHandlerSync(par) ==
    {[par |-> q, err |-> NoErr] : q \in {par, pConsume(par)}}
        \cup {[par |-> par, err |-> e] : e \in RecEx("InputMismatchException")}

\* interpreter.adaptivePredict over n alternatives: one of them, or no viable one
adaptivePredict(n) ==
    {[alt |-> a, err |-> NoErr] : a \in 1..n}
        \cup {[alt |-> 0, err |-> e] : e \in RecEx("NoViableAltException")}

\* the outcomes of visiting a state: [par, alt, err, calls, forced]
Visit(par, alt, err, calls, forced) ==
    [par |-> par, alt |-> alt, err |-> err, calls |-> calls, forced |-> forced]

\* visitDecisionState that takes the override before it calls sync
visitDecisionState_OverrideSkipsSync(par, p) ==
    LET ts == atnStates[p].transitions
        decision == atnStates[p].decision
    IN IF Len(ts) > 1
       THEN IF /\ decision = par.overrideDecision
               /\ par.idx = par.overrideDecisionInputIndex
               /\ ~par.overrideDecisionReached
            THEN {Visit([par EXCEPT !.overrideDecisionReached = TRUE],
                        par.overrideDecisionAlt, NoErr, <<>>, TRUE)}
            ELSE UNION {
                   IF s.err # NoErr THEN {Visit(s.par, 0, s.err, <<"sync">>, FALSE)}
                   ELSE {Visit(s.par, a.alt, a.err, <<"sync", "adaptivePredict">>, FALSE) :
                            a \in adaptivePredict(Len(ts))}
                   : s \in errorHandlerSync(par)}
       ELSE {Visit(par, 1, NoErr, <<>>, FALSE)}

visitDecisionState(par, p) ==
    LET ts == atnStates[p].transitions
        decision == atnStates[p].decision
    IN IF Len(ts) > 1
       THEN UNION {
              IF s.err # NoErr THEN {Visit(s.par, 0, s.err, <<"sync">>, FALSE)}
              ELSE IF /\ decision = s.par.overrideDecision
                      /\ s.par.idx = s.par.overrideDecisionInputIndex
                      /\ ~s.par.overrideDecisionReached
                   THEN {Visit([s.par EXCEPT !.overrideDecisionReached = TRUE],
                               s.par.overrideDecisionAlt, NoErr, <<"sync">>, TRUE)}
                   ELSE {Visit(s.par, a.alt, a.err, <<"sync", "adaptivePredict">>, FALSE) :
                            a \in adaptivePredict(Len(ts))}
              : s \in errorHandlerSync(par)}
       ELSE {Visit(par, 1, NoErr, <<>>, FALSE)}

\* Parser.match: consume on a match, else errorHandler.recoverInline, which
\* conjures the token or throws
match(par, ttype) ==
    IF pLA1(par) = ttype THEN {[par |-> pConsume(par), err |-> NoErr]}
    ELSE {[par |-> par, err |-> NoErr]}
            \cup {[par |-> par, err |-> e] : e \in RecEx("InputMismatchException")}

\* what taking the transition does, before this.state is set to its target
takeTransition(par, p, transition) ==
    CASE transition.type = "EPSILON" -> {[par |-> par, err |-> NoErr]}
      [] transition.type = "ATOM" -> match(par, transition.label)
      [] transition.type = "RULE" ->
            LET ruleIndex == atnStates[transition.target].ruleIndex
                newContext == createInterpreterRuleContext(par.ctx, p, ruleIndex)
            IN {[par |-> enterRule(par, newContext, transition.target), err |-> NoErr]}
      [] transition.type = "PREDICATE" ->
            {[par |-> par, err |-> NoErr]}
                \cup {[par |-> par, err |-> e] : e \in RecEx("FailedPredicateException")}
      [] transition.type = "ACTION" ->
            {[par |-> par, err |-> NoErr], [par |-> par, err |-> PlainError]}
      [] OTHER -> {[par |-> par, err |-> PlainError]}

visitState(par, p) ==
    UNION {
        IF d.err # NoErr THEN {d}
        ELSE LET transition == atnStates[p].transitions[d.alt]
             IN {Visit(IF t.err = NoErr THEN [t.par EXCEPT !.state = transition.target]
                       ELSE t.par,
                       d.alt, t.err, d.calls, d.forced) :
                    t \in takeTransition(d.par, p, transition)}
        : d \in IF isDecisionState(p) THEN visitDecisionState(par, p)
                ELSE {Visit(par, 1, NoErr, <<>>, FALSE)}}

visitRuleStopState(par, p) ==
    IF ~hasContext(par) THEN [par |-> par, err |-> PlainError]
    ELSE LET q == exitRule(par)
             ruleTransition == atnStates[q.state].transitions[1]
         IN [par |-> [q EXCEPT !.state = ruleTransition.followState], err |-> NoErr]

\* errorHandler.reportError: notifies the listeners; one of them may throw
errorHandlerReportError(par, e) == {[err |-> NoErr], [err |-> PlainError]}

\* errorHandler.recover: consumes a token or not, or rethrows
errorHandlerRecover(par, e) ==
    {[par |-> q, err |-> NoErr] : q \in {par, pConsume(par)}}
        \cup {[par |-> par, err |-> e]}

\* ParserInterpreter.recover
pRecover(par, e) ==
    {IF h.err # NoErr THEN h
     ELSE IF h.par.idx # par.idx THEN h
     ELSE IF ~e.offendingToken THEN [par |-> h.par, err |-> PlainError]
     ELSE IF e.kind = "InputMismatchException" /\ ~e.expectedTokens
          THEN [par |-> h.par, err |-> PlainError]
     ELSE h
     : h \in errorHandlerRecover(par, e)}

\* the catch clause of parse without the assignment to this.state
catchRecognition_KeepsState(par, p, v) ==
    LET q == [v.par EXCEPT !.ctx[Len(v.par.ctx)].exception = v.err.kind]
    IN UNION {
         IF rep.err # NoErr
         THEN {[par |-> q, err |-> rep.err, calls |-> v.calls \o <<"reportError">>]}
         ELSE {[par |-> r.par, err |-> r.err,
                calls |-> v.calls \o <<"reportError", "recover">>] :
                  r \in pRecover(q, v.err)}
         : rep \in errorHandlerReportError(q, v.err)}

\* the catch clause of parse for a RecognitionException e thrown by visitState(p)
catchRecognition(par, p, v) ==
    LET q == [v.par EXCEPT !.state = ruleToStopState[atnStates[p].ruleIndex],
                           !.ctx[Len(v.par.ctx)].exception = v.err.kind]
    IN UNION {
         IF rep.err # NoErr
         THEN {[par |-> q, err |-> rep.err, calls |-> v.calls \o <<"reportError">>]}
         ELSE {[par |-> r.par, err |-> r.err,
                calls |-> v.calls \o <<"reportError", "recover">>] :
                  r \in pRecover(q, v.err)}
         : rep \in errorHandlerReportError(q, v.err)}

\* one outcome of an iteration of parse's loop
Step(par, next, kind, visitErr, err, calls, forced, alt) ==
    [par |-> par, next |-> next, kind |-> kind, visitErr |-> visitErr, err |-> err,
     calls |-> calls, forced |-> forced, alt |-> alt]

\* parse's test at a rule stop state: this.context?.isEmpty
atStartRuleEnd(par) == isEmptyMember(par)

\* one iteration of the loop of parse
parseLoop(par) ==
    LET p == par.state
    IN IF atnStates[p].stateType = "RULE_STOP"
       THEN IF atStartRuleEnd(par)
            THEN {Step(exitRule(par), "returned", "return", "none", NoErr, <<>>, FALSE, 0)}
            ELSE LET r == visitRuleStopState(par, p)
                 IN {Step(r.par, IF r.err = NoErr THEN "loop" ELSE "threw", "ruleStop",
                          "none", r.err, <<>>, FALSE, 0)}
       ELSE UNION {
              IF v.err = NoErr
              THEN {Step(v.par, "loop", "visit", "none", NoErr, v.calls, v.forced, v.alt)}
              ELSE IF isRecognitionException(v.err)
              THEN {Step(c.par, IF c.err = NoErr THEN "loop" ELSE "threw", "visit",
                         v.err.kind, c.err, c.calls, v.forced, v.alt) :
                       c \in catchRecognition(par, p, v)}
              ELSE {Step(v.par, "threw", "visit", v.err.kind, v.err, v.calls, v.forced, v.alt)}
              : v \in visitState(par, p)}

(***************************************************************************)
(* The calls a client makes on a ParserInterpreter, parse taken one        *)
(* iteration of its loop at a time.                                        *)
(***************************************************************************)
NewPObs ==
    [kind |-> "new", p |-> -1, calls |-> <<>>, forced |-> FALSE, alt |-> 0,
     visitErr |-> "none", uses |-> 0, stopEmpty |-> FALSE, depth |-> 0]

\* parse, up to its loop
PParse ==
    /\ UNCHANGED notPiVars
    /\ pPc # "loop"
    /\ \E startRuleIndex \in RuleIndexes :
        LET rootContext == createInterpreterRuleContext(<<>>, INVALID_STATE_NUMBER,
                                                        startRuleIndex)
        IN /\ ~isPrecedenceRule[startRuleIndex]
           /\ pi' = enterRule(pi, rootContext, ruleToStartState[startRuleIndex])
    /\ pPc' = "loop"
    /\ pThrown' = "none"
    /\ pObs' = [NewPObs EXCEPT !.kind = "enter", !.uses = pObs.uses]

\* one iteration of the loop of parse
PStep ==
    /\ UNCHANGED notPiVars
    /\ pPc = "loop"
    /\ \E o \in parseLoop(pi) :
        /\ pi' = o.par
        /\ pPc' = o.next
        /\ pThrown' = o.err.kind
        /\ pObs' = [kind |-> o.kind, p |-> pi.state, calls |-> o.calls,
                    forced |-> o.forced, alt |-> o.alt, visitErr |-> o.visitErr,
                    uses |-> IF o.forced THEN pObs.uses + 1 ELSE pObs.uses,
                    stopEmpty |-> hasContext(pi) /\ isEmpty(context(pi)),
                    depth |-> Len(pi.ctx)]

PReset ==
    /\ UNCHANGED notPiVars
    /\ pPc # "loop"
    /\ pi' = pReset(pi)
    /\ pPc' = "idle"
    /\ pThrown' = "none"
    /\ pObs' = [NewPObs EXCEPT !.kind = "reset"]

PAddDecisionOverride ==
    /\ UNCHANGED notPiVars
    /\ \E d \in Decisions, i \in 0..MaxPInput, forcedAlt \in Alts :
        pi' = addDecisionOverride(pi, d, i, forcedAlt)
    /\ UNCHANGED <<pPc, pThrown>>
    /\ pObs' = [NewPObs EXCEPT !.kind = "addDecisionOverride", !.uses = pObs.uses]

PInit ==
    /\ \E t \in PInputs : pi = NewParser(t)
    /\ pPc = "idle"
    /\ pThrown = "none"
    /\ pObs = NewPObs
    /\ LexIdle
    /\ UtsIdle
    /\ RmdIdle
    /\ StIdle
    /\ LtsIdle
    /\ RttIdle
    /\ LlIdle

PNext ==
    \/ PParse
    \/ PStep
    \/ PReset
    \/ PAddDecisionOverride

SpecPI == PInit /\ [][PNext]_vars

(***************************************************************************)
(* Properties of ParserInterpreter.                                        *)
(***************************************************************************)
\* C13: parse returns only at a rule stop state whose context has no invoking
\* state (isEmpty() is true); at the stop state of a nested rule invocation it
\* does not return but goes on at the follow state of the invoking transition.
C13_ReturnsAtStartRuleEnd ==
    (pPc = "returned" /\ pObs.kind = "return") => pObs.stopEmpty

Called(c, calls) == \E k \in 1..Len(calls) : calls[k] = c

\* the step is a visit of a decision state with more than one transition
MultiDecisionVisit ==
    /\ pPc = "loop"
    /\ pObs'.kind = "visit"
    /\ isDecisionState(pi.state)
    /\ Len(atnStates[pi.state].transitions) > 1

\* C14: between two calls of reset() the forced alternative is used for at
\* most one decision visit, the first visit of the overridden decision at the
\* overridden input index, without consulting adaptivePredict; every other
\* visit of a decision state with more than one transition takes the result of
\* adaptivePredict, also after addDecisionOverride is called again.
C14_OverrideStep ==
    MultiDecisionVisit =>
        LET decision == atnStates[pi.state].decision
            atOverride == /\ decision = pi.overrideDecision
                       /\ pi'.idx = pi.overrideDecisionInputIndex
        IN /\ pObs'.forced =>
                /\ pObs.uses = 0
                /\ atOverride
                /\ pObs'.alt = pi.overrideDecisionAlt
                /\ ~Called("adaptivePredict", pObs'.calls)
           /\ (~pObs'.forced /\ pObs'.visitErr = "none") =>
                /\ Called("adaptivePredict", pObs'.calls)
                /\ ~(atOverride /\ pObs.uses = 0)

C14_OverrideOnce == [](pObs.uses <= 1) /\ [][C14_OverrideStep]_vars

C14_Witness ==
    /\ pObs.kind = "visit"
    /\ pObs.uses = 1
    /\ ~pObs.forced
    /\ pObs.visitErr = "none"
    /\ Called("adaptivePredict", pObs.calls)
    /\ atnStates[pObs.p].decision = pi.overrideDecision
    /\ pi.idx = pi.overrideDecisionInputIndex

\* in the visit of a decision state only sync throws an InputMismatchException
\* (adaptivePredict throws NoViableAltException, the transitions are epsilon)
SyncThrew(o) == o.visitErr = "InputMismatchException"

SyncFirst ==
    /\ pObs'.calls # <<>>
    /\ pObs'.calls[1] = "sync"
    /\ SyncThrew(pObs') =>
          /\ ~Called("adaptivePredict", pObs'.calls)
          /\ ~pObs'.forced
          /\ pi'.overrideDecisionReached = pi.overrideDecisionReached

\* C15 as stated: errorHandler.sync is called on every visit of a decision
\* state, before the alternative is chosen; if it throws, adaptivePredict is
\* not called and the override is not consumed.
C15_OriginalStep ==
    (pPc = "loop" /\ pObs'.kind = "visit" /\ isDecisionState(pi.state)) => SyncFirst

C15_SyncStep ==
    /\ MultiDecisionVisit => SyncFirst
    /\ (pPc = "loop" /\ pObs'.kind = "visit" /\ ~MultiDecisionVisit) =>
            ~Called("sync", pObs'.calls)

RecognitionThrown ==
    /\ pPc = "loop"
    /\ pObs'.kind = "visit"
    /\ pObs'.visitErr \in RecognitionKinds

\* what the catch clause of parse does with it
Stored ==
    /\ pi'.state = ruleToStopState[atnStates[pi.state].ruleIndex]
    /\ hasContext(pi') /\ context(pi').exception = pObs'.visitErr

EndsWith(calls, tail) ==
    /\ Len(calls) >= Len(tail)
    /\ SubSeq(calls, Len(calls) - Len(tail) + 1, Len(calls)) = tail

Handled == Stored /\ EndsWith(pObs'.calls, <<"reportError", "recover">>)

\* an error that is not a RecognitionException leaves parse right away
PlainErrorPropagates ==
    (pPc = "loop" /\ pObs'.kind = "visit" /\ pObs'.visitErr = "Error") =>
        /\ pPc' = "threw"
        /\ pThrown' = "Error"
        /\ ~Called("reportError", pObs'.calls)
        /\ ~Called("recover", pObs'.calls)

\* C16 as stated: a RecognitionException thrown while parse visits a state
\* never escapes parse: the state becomes the stop state of the failing
\* state's rule, the exception is stored on the context, reportError and then
\* recover are called, and the walk continues; any other error propagates
\* without reportError or recover.
C16_OriginalStep ==
    /\ RecognitionThrown => (Handled /\ pPc' = "loop" /\ pThrown' = "none")
    /\ PlainErrorPropagates

C16_Original == [][C16_OriginalStep]_vars

\* C16 amended: a RecognitionException thrown while parse visits a state is
\* caught: the state becomes the stop state of the failing state's rule, the
\* exception is stored on the context, reportError is called and, when it
\* returns, recover; the walk continues if both return, and what either throws
\* (a listener's error, the exception the error strategy rethrows, recover's
\* own Error) leaves parse; any other error propagates without reportError or
\* recover.
C16_CaughtStep ==
    /\ RecognitionThrown =>
          /\ Stored
          /\ \/ Handled /\ pPc' = "loop" /\ pThrown' = "none"
             \/ Handled /\ pPc' = "threw" /\ pThrown' \in {pObs'.visitErr, "Error"}
             \/ /\ EndsWith(pObs'.calls, <<"reportError">>)
                /\ ~Called("recover", pObs'.calls)
                /\ pPc' = "threw" /\ pThrown' = "Error"
    /\ PlainErrorPropagates

C16_Caught == [][C16_CaughtStep]_vars

C16_Witness ==
    /\ pPc = "threw"
    /\ pObs.kind = "visit"
    /\ pObs.visitErr \in RecognitionKinds
    /\ pThrown = pObs.visitErr
    /\ pi.state = ruleToStopState[atnStates[pObs.p].ruleIndex]
    /\ context(pi).exception = pObs.visitErr

(***************************************************************************)
(* RuntimeMetaData.  A string is [isNull, chars], chars the sequence of    *)
(* its characters; null is a string value of its own.                      *)
(***************************************************************************)
Str(c) == [isNull |-> FALSE, chars |-> c]
NullString == [isNull |-> TRUE, chars |-> <<>>]

VERSION == Str(<<"4", ".", "1", "3", ".", "1">>)

\* version strings: every string up to MaxVer over VerChars, and the forms
\* major.minor[.patch[.revision]][-suffix] the class documents
VerChars == {"4", "1", ".", "-"}
Majors == {<<"4">>, <<"3">>}
Minors == {<<"1", "3">>, <<"1">>}
PatchParts == {<<>>, <<".", "1">>, <<".", "0">>, <<".", "1", ".", "2">>}
Suffixes == {<<>>, <<"-", "S">>}
MajorMinor(maj, min) == maj \o <<".">> \o min
VersionForms ==
    {MajorMinor(maj, min) \o pat \o suf :
        maj \in Majors, min \in Minors, pat \in PatchParts, suf \in Suffixes}
Versions == {Str(c) : c \in SeqsUpTo(VerChars, MaxVer) \cup VersionForms}

\* String.indexOf(c, from), 0-based, -1 if there is none
indexOf(str, c, from) ==
    LET hits == {i \in from..(Len(str) - 1) : str[i + 1] = c}
    IN IF hits = {} THEN -1 ELSE CHOOSE i \in hits : \A j \in hits : i <= j

\* String.substring(0, n)
substring(str, n) == SubSeq(str, 1, n)

\* getMajorMinorVersion that cuts at the first dot
getMajorMinorVersion_FirstDot(version) ==
    IF version.isNull THEN [ret |-> NullString, err |-> "TypeError"]
    ELSE LET v == version.chars
             firstDot == indexOf(v, ".", 0)
             firstDash == indexOf(v, "-", 0)
             l0 == Len(v)
             l1 == IF firstDot >= 0 THEN Min(l0, firstDot) ELSE l0
             referenceLength == IF firstDash >= 0 THEN Min(l1, firstDash) ELSE l1
         IN [ret |-> Str(substring(v, referenceLength)), err |-> "none"]

\* [ret, err]: reading indexOf of null throws a TypeError
getMajorMinorVersion(version) ==
    IF version.isNull THEN [ret |-> NullString, err |-> "TypeError"]
    ELSE LET v == version.chars
             firstDot == indexOf(v, ".", 0)
             secondDot == IF firstDot >= 0 THEN indexOf(v, ".", firstDot + 1) ELSE -1
             firstDash == indexOf(v, "-", 0)
             l0 == Len(v)
             l1 == IF secondDot >= 0 THEN Min(l0, secondDot) ELSE l0
             referenceLength == IF firstDash >= 0 THEN Min(l1, firstDash) ELSE l1
         IN [ret |-> Str(substring(v, referenceLength)), err |-> "none"]

\* a && b on the outcomes [ret, err] of its operands: b is evaluated only if a holds
conflicts(runtimeVersion, other) ==
    IF runtimeVersion = other THEN [ret |-> FALSE, err |-> "none"]
    ELSE LET a == getMajorMinorVersion(runtimeVersion)
             b == getMajorMinorVersion(other)
         IN IF a.err # "none" THEN [ret |-> FALSE, err |-> a.err]
            ELSE IF b.err # "none" THEN [ret |-> FALSE, err |-> b.err]
            ELSE [ret |-> a.ret # b.ret, err |-> "none"]

ToolLine(v) == [about |-> "ANTLR Tool version", version |-> v]
RuntimeLine(v) == [about |-> "ANTLR Runtime version", version |-> v]

\* checkVersion that asks for the same version string
checkVersion_Exact(generatingToolVersion, compileTimeVersion) ==
    [lines |-> (IF VERSION # generatingToolVersion
                THEN <<ToolLine(generatingToolVersion)>> ELSE <<>>)
               \o (IF VERSION # compileTimeVersion
                   THEN <<RuntimeLine(compileTimeVersion)>> ELSE <<>>),
     err |-> "none"]

\* [lines, err]: the lines written to console.error, or what it threw
checkVersion(generatingToolVersion, compileTimeVersion) ==
    LET runtimeVersion == VERSION
        runtimeConflictsWithGeneratingTool == conflicts(runtimeVersion, generatingToolVersion)
        runtimeConflictsWithCompileTimeTool == conflicts(runtimeVersion, compileTimeVersion)
    IN IF runtimeConflictsWithGeneratingTool.err # "none"
       THEN [lines |-> <<>>, err |-> runtimeConflictsWithGeneratingTool.err]
       ELSE IF runtimeConflictsWithCompileTimeTool.err # "none"
       THEN [lines |-> <<>>, err |-> runtimeConflictsWithCompileTimeTool.err]
       ELSE [lines |-> (IF runtimeConflictsWithGeneratingTool.ret
                        THEN <<ToolLine(generatingToolVersion)>> ELSE <<>>)
                       \o (IF runtimeConflictsWithCompileTimeTool.ret
                           THEN <<RuntimeLine(compileTimeVersion)>> ELSE <<>>),
             err |-> "none"]

\* the calls on RuntimeMetaData, with the arguments the behaviour started with
RCheckVersion ==
    /\ UNCHANGED notRmdVars
    /\ \E r \in {checkVersion(rmd.tool, rmd.compile)} :
        rmd' = [rmd EXCEPT !.op = "checkVersion", !.lines = r.lines,
                           !.ret = NullString, !.err = r.err]

RGetMajorMinorVersion ==
    /\ UNCHANGED notRmdVars
    /\ \E r \in {getMajorMinorVersion(rmd.tool)} :
        rmd' = [rmd EXCEPT !.op = "getMajorMinorVersion", !.lines = <<>>,
                           !.ret = r.ret, !.err = r.err]

RInit ==
    /\ \E tool \in Versions \cup {NullString}, compile \in Versions :
        rmd = [tool |-> tool, compile |-> compile, op |-> "new", lines |-> <<>>,
               ret |-> NullString, err |-> "none"]
    /\ StIdle
    /\ LexIdle
    /\ UtsIdle
    /\ PiIdle
    /\ LtsIdle
    /\ RttIdle
    /\ LlIdle

RNext ==
    \/ RCheckVersion
    \/ RGetMajorMinorVersion

SpecRMD == RInit /\ [][RNext]_vars

(***************************************************************************)
(* Properties of RuntimeMetaData.                                          *)
(***************************************************************************)
\* the prefix of v that ends just before its second '.' or its first '-',
\* whichever comes first; all of v if it has neither
Positions(v, c) == {i \in 1..Len(v) : v[i] = c}
SecondDots(v) ==
    {i \in Positions(v, ".") : Cardinality({j \in Positions(v, ".") : j < i}) = 1}
Cuts(v) == SecondDots(v) \cup Positions(v, "-")
MajorMinorPrefix(v) ==
    IF Cuts(v) = {} THEN v
    ELSE SubSeq(v, 1, (CHOOSE i \in Cuts(v) : \A j \in Cuts(v) : i <= j) - 1)

\* C17: checkVersion(tool, compile) writes one 'ANTLR Tool version' line iff
\* the major.minor of tool differs from that of VERSION, and one 'ANTLR
\* Runtime version' line iff the major.minor of compile differs from it;
\* versions differing from VERSION only in patch, revision or suffix write
\* nothing.
C17_VersionLines ==
    (rmd.op = "checkVersion" /\ ~rmd.tool.isNull) =>
        LET toolDiffers == MajorMinorPrefix(rmd.tool.chars) # <<"4", ".", "1", "3">>
            compileDiffers == MajorMinorPrefix(rmd.compile.chars) # <<"4", ".", "1", "3">>
        IN /\ rmd.err = "none"
           /\ rmd.lines = (IF toolDiffers THEN <<ToolLine(rmd.tool)>> ELSE <<>>)
                          \o (IF compileDiffers THEN <<RuntimeLine(rmd.compile)>> ELSE <<>>)
           /\ (\E pat \in PatchParts, suf \in Suffixes :
                 rmd.tool.chars = <<"4", ".", "1", "3">> \o pat \o suf) =>
                    \A k \in 1..Len(rmd.lines) : rmd.lines[k].about # "ANTLR Tool version"

C17_Witness ==
    /\ rmd.op = "checkVersion"
    /\ rmd.tool = Str(<<"4", ".", "1", "3", ".", "0">>)
    /\ rmd.compile = Str(<<"4", ".", "1", "-", "S">>)
    /\ rmd.lines = <<RuntimeLine(rmd.compile)>>

\* C18: checkVersion accepts a null generatingToolVersion: it completes
\* without raising, reports no tool-version mismatch and still performs the
\* compile-time version check.
C18_NullToolAccepted ==
    (rmd.op = "checkVersion" /\ rmd.tool.isNull) =>
        /\ rmd.err = "none"
        /\ rmd.lines = (IF MajorMinorPrefix(rmd.compile.chars) # <<"4", ".", "1", "3">>
                        THEN <<RuntimeLine(rmd.compile)>> ELSE <<>>)

\* C19: getMajorMinorVersion(v) is the prefix of v ending just before the
\* second '.' or the first '-', whichever comes first (all of v if neither):
\* x.y, x.y.z, x.y.z.r and x.y-SNAPSHOT give x.y; and it is idempotent.
C19_MajorMinor ==
    (rmd.op = "getMajorMinorVersion" /\ ~rmd.tool.isNull) =>
        /\ rmd.err = "none"
        /\ rmd.ret = Str(MajorMinorPrefix(rmd.tool.chars))
        /\ getMajorMinorVersion(rmd.ret) = [ret |-> rmd.ret, err |-> "none"]
        /\ \A maj \in Majors, min \in Minors, pat \in PatchParts, suf \in Suffixes :
              rmd.tool.chars = MajorMinor(maj, min) \o pat \o suf =>
                  rmd.ret = Str(MajorMinor(maj, min))

C19_Witness ==
    /\ rmd.op = "getMajorMinorVersion"
    /\ rmd.tool = Str(<<"4", ".", "1", "3", ".", "1", ".", "2", "-", "S">>)
    /\ rmd.ret = Str(<<"4", ".", "1", "3">>)

(***************************************************************************)
(* SetTransition, in its two definitions.  An IntervalSet is the sequence  *)
(* of its closed ranges [start, stop], sorted, neither overlapping nor     *)
(* adjacent.                                                               *)
(***************************************************************************)
Symbols == -1..MaxSym

Members(set) == UNION {set[k].start..set[k].stop : k \in 1..Len(set)}

\* the normalized ranges of a finite set of integers
RECURSIVE Ranges(_)
Ranges(S) ==
    IF S = {} THEN <<>>
    ELSE LET lo == CHOOSE x \in S : \A y \in S : x <= y
             hi == CHOOSE x \in S : /\ \A y \in lo..x : y \in S
                                    /\ x + 1 \notin S
         IN <<[start |-> lo, stop |-> hi]>> \o Ranges({x \in S : x > hi})

NewIntervalSet == <<>>
addRange(set, lo, hi) == Ranges(Members(set) \cup lo..hi)
addOne(set, v) == addRange(set, v, v)
IntervalSetOf(a, b) == addRange(NewIntervalSet, a, b)
contains(set, v) == \E k \in 1..Len(set) : set[k].start <= v /\ v <= set[k].stop

\* the set argument of the constructors: null, undefined or an IntervalSet
NullSet == [kind |-> "null", set |-> <<>>]
UndefinedSet == [kind |-> "undefined", set |-> <<>>]
SetArgs ==
    {NullSet, UndefinedSet} \cup {[kind |-> "set", set |-> Ranges(S)] : S \in SUBSET Symbols}

\* the constructor with a default set that is left empty
SetTransition_EmptyDefault(target, set) ==
    [target |-> target,
     set |-> IF set.kind # "undefined" /\ set.kind # "null" THEN set.set
             ELSE NewIntervalSet]

\* the definition with set ?? IntervalSet.of(INVALID_TYPE, INVALID_TYPE)
SetTransition_of(target, set) ==
    [target |-> target,
     set |-> IF set.kind \in {"null", "undefined"}
             THEN IntervalSetOf(INVALID_TYPE, INVALID_TYPE)
             ELSE set.set]

\* the definition with new IntervalSet() and addOne(INVALID_TYPE)
SetTransition_addOne(target, set) ==
    [target |-> target,
     set |-> IF set.kind # "undefined" /\ set.kind # "null" THEN set.set
             ELSE addOne(NewIntervalSet, INVALID_TYPE)]

matches(t, symbol, minVocabSymbol, maxVocabSymbol) == contains(t.set, symbol)

SConstruct ==
    /\ UNCHANGED notStVars
    /\ st.op = "new"
    /\ st' = [st EXCEPT !.op = "constructor",
                        !.viaOf = SetTransition_of(0, st.arg),
                        !.viaAddOne = SetTransition_addOne(0, st.arg)]

SMatches ==
    /\ UNCHANGED notStVars
    /\ st.op # "new"
    /\ \E symbol \in -1..(MaxSym + 1), min \in {0, 1}, max \in {0, MaxSym} :
        st' = [st EXCEPT !.op = "matches",
                         !.symbol = symbol, !.min = min, !.max = max,
                         !.retOf = matches(st.viaOf, symbol, min, max),
                         !.retAddOne = matches(st.viaAddOne, symbol, min, max)]

SInit ==
    /\ \E arg \in SetArgs :
        st = [arg |-> arg, op |-> "new",
              viaOf |-> [target |-> 0, set |-> <<>>],
              viaAddOne |-> [target |-> 0, set |-> <<>>],
              symbol |-> 0, min |-> 0, max |-> 0, retOf |-> FALSE, retAddOne |-> FALSE]
    /\ RmdIdle
    /\ LexIdle
    /\ UtsIdle
    /\ PiIdle
    /\ LtsIdle
    /\ RttIdle
    /\ LlIdle

SNext ==
    \/ SConstruct
    \/ SMatches

SpecST == SInit /\ [][SNext]_vars

(***************************************************************************)
(* Properties of SetTransition.                                            *)
(***************************************************************************)
\* C20: the two SetTransition definitions are equivalent: built with a null
\* or undefined set each holds an interval set containing exactly
\* INVALID_TYPE; built with a set S each keeps S, and matches(s, min, max)
\* is S.contains(s) whatever min and max are.
C20_SetTransitionsAgree ==
    st.op # "new" =>
        /\ st.viaOf = st.viaAddOne
        /\ st.arg.kind \in {"null", "undefined"} =>
              /\ Members(st.viaAddOne.set) = {INVALID_TYPE}
              /\ st.op = "matches" => (st.retAddOne <=> st.symbol = INVALID_TYPE)
        /\ st.arg.kind = "set" =>
              /\ st.viaAddOne.set = st.arg.set
              /\ st.op = "matches" => (st.retAddOne <=> st.symbol \in Members(st.arg.set))
        /\ st.op = "matches" => st.retOf = st.retAddOne

C20_Witness ==
    /\ st.op = "matches"
    /\ st.arg.kind = "null"
    /\ st.symbol = INVALID_TYPE
    /\ st.retOf /\ st.retAddOne
    /\ st.min = 1

(***************************************************************************)
(* ListTokenSource: a token source over a list of tokens.  The fields i    *)
(* and eofToken are declared without an initializer and the constructor    *)
(* assigns neither, so both hold undefined until they are first written.   *)
(***************************************************************************)
MaxList == 2         \* longest token list wrapped by a ListTokenSource
MaxCalls == 4        \* nextToken is not called more often on one token source

\* a number field: a number, NaN, or undefined while it was never written
JsNumber(n) == [kind |-> "number", n |-> n]
JsNaN == [kind |-> "NaN", n |-> 0]
JsUndefined == [kind |-> "undefined", n |-> 0]

\* a token of the list: id tells the objects apart, src is the name of its
\* input stream (null: the token has no input stream)
ListToken(id, type, stop, src) ==
    [kind |-> "token", id |-> id, type |-> type, stop |-> stop, src |-> src]
UndefinedToken == [kind |-> "undefined", id |-> -1, type |-> 0, stop |-> -1, src |-> NullString]
NullToken == [kind |-> "null", id |-> -1, type |-> 0, stop |-> -1, src |-> NullString]

SourceNames == {NullString, Str(<<"f">>)}
ListTokenKinds == {[type |-> t, stop |-> e, src |-> n] :
                      t \in {EOF, 1}, e \in {-1, 3}, n \in SourceNames}
TokenLists ==
    {[k \in 1..Len(q) |-> ListToken(k, q[k].type, q[k].stop, q[k].src)] :
        q \in SeqsUpTo(ListTokenKinds, MaxList)}

\* constructor(tokens, sourceName?): sourceName ?? ""
NewListTokenSource(tokens, sourceName) ==
    [tokens |-> tokens,
     sourceName |-> IF sourceName.isNull THEN Str(<<>>) ELSE sourceName,
     i |-> JsUndefined,
     eofToken |-> UndefinedToken,
     created |-> 0]

\* i < n and i >= n: false unless i is a number
JsLess(i, n) == i.kind = "number" /\ i.n < n
JsAtLeast(i, n) == i.kind = "number" /\ i.n >= n
\* tokens[i]: undefined unless i is an index of the list
ElementAt(tokens, i) ==
    IF i.kind = "number" /\ i.n \in 0..(Len(tokens) - 1) THEN tokens[i.n + 1]
    ELSE UndefinedToken
\* i++
Increment(i) == IF i.kind = "number" THEN JsNumber(i.n + 1) ELSE JsNaN

\* get inputStream(): the name of the stream, or a TypeError when the
\* property is read from undefined
inputStream(l) ==
    IF JsLess(l.i, Len(l.tokens))
    THEN [err |-> "none", src |-> ElementAt(l.tokens, l.i).src]
    ELSE IF l.eofToken.kind # "null"
    THEN IF l.eofToken.kind = "undefined"
         THEN [err |-> "TypeError", src |-> NullString]
         ELSE [err |-> "none", src |-> l.eofToken.src]
    ELSE IF Len(l.tokens) > 0
    THEN [err |-> "none", src |-> l.tokens[Len(l.tokens)].src]
    ELSE [err |-> "none", src |-> NullString]

\* nextToken(): the token returned and the fields after the call
nextToken(l) ==
    LET n == Len(l.tokens)
    IN  IF JsAtLeast(l.i, n)
        THEN IF l.eofToken.kind = "null"
             THEN LET previousStop == IF n > 0 THEN l.tokens[n].stop ELSE -1
                      start == IF previousStop # -1 THEN previousStop + 1 ELSE -1
                      stop == IF start - 1 > -1 THEN start - 1 ELSE -1
                      in == inputStream(l)
                      t == ListToken(0, EOF, stop, in.src)
                  IN  IF in.err # "none"
                      THEN [l |-> l, err |-> in.err, token |-> UndefinedToken]
                      ELSE [l |-> [l EXCEPT !.eofToken = t, !.created = @ + 1],
                            err |-> "none", token |-> t]
             ELSE [l |-> l, err |-> "none", token |-> l.eofToken]
        ELSE LET t == ElementAt(l.tokens, l.i)
             IN  [l |-> [l EXCEPT !.i = Increment(@),
                                  !.eofToken = IF l.i = JsNumber(n - 1) /\ t.type = EOF
                                               THEN t ELSE @],
                  err |-> "none", token |-> t]

\* getSourceName()
getSourceName(l) ==
    IF ~l.sourceName.isNull THEN [err |-> "none", name |-> l.sourceName]
    ELSE LET in == inputStream(l)
         IN  IF in.err # "none" THEN [err |-> in.err, name |-> NullString]
             ELSE IF ~in.src.isNull THEN [err |-> "none", name |-> in.src]
             ELSE [err |-> "none", name |-> Str(<<"L", "i", "s", "t">>)]

LNextToken ==
    /\ UNCHANGED notLtsVars
    /\ lObs.k < MaxCalls
    /\ \E r \in {nextToken(lts)} :
        /\ lts' = r.l
        /\ lRet' = [err |-> r.err, token |-> r.token, name |-> NullString]
        /\ lObs' = [call |-> "nextToken", k |-> lObs.k + 1, prev |-> lRet.token,
                    named |-> lObs.named]

LGetSourceName ==
    /\ UNCHANGED notLtsVars
    /\ \E r \in {getSourceName(lts)} :
        /\ lts' = lts
        /\ lRet' = [err |-> r.err, token |-> lRet.token, name |-> r.name]
        /\ lObs' = [lObs EXCEPT !.call = "getSourceName"]

LInit ==
    /\ \E tokens \in TokenLists, sourceName \in {NullString, Str(<<"A">>)} :
        /\ lts = NewListTokenSource(tokens, sourceName)
        /\ lObs = [call |-> "new", k |-> 0, prev |-> UndefinedToken,
                   named |-> ~sourceName.isNull]
    /\ lRet = [err |-> "none", token |-> UndefinedToken, name |-> NullString]
    /\ LexIdle
    /\ UtsIdle
    /\ PiIdle
    /\ RmdIdle
    /\ StIdle
    /\ RttIdle
    /\ LlIdle

LNext ==
    \/ LNextToken
    \/ LGetSourceName

SpecLTS == LInit /\ [][LNext]_vars

(***************************************************************************)
(* Properties of ListTokenSource.                                          *)
(***************************************************************************)
\* C21: over a list of n tokens the k-th call of nextToken (k = 1..n)
\* returns the k-th token of the list; every later call returns an EOF
\* token, always the same one: the list's final token when that has type
\* EOF, otherwise one EOF token created on first demand, so at most one
\* EOF token is ever created.
C21_ListThenEof ==
    LET n == Len(lts.tokens)
    IN  /\ lts.created <= 1
        /\ lObs.call = "nextToken" =>
              /\ lRet.err = "none"
              /\ lObs.k <= n => lRet.token = lts.tokens[lObs.k]
              /\ lObs.k > n =>
                    /\ lRet.token.kind = "token"
                    /\ lRet.token.type = EOF
                    /\ (n > 0 /\ lts.tokens[n].type = EOF) => lRet.token = lts.tokens[n]
                    /\ ~(n > 0 /\ lts.tokens[n].type = EOF) => lRet.token.id = 0
              /\ lObs.k > n + 1 => lRet.token = lObs.prev

\* C22: a ListTokenSource built without a source name answers getSourceName
\* with the source name of the input stream of its next token (of the
\* previous token once the end of the list is reached) and with 'List' when
\* there is no input stream; built with a name it answers that name.
C22_SourceName ==
    lObs.call = "getSourceName" =>
        LET n == Len(lts.tokens)
            k == lObs.k
            src == IF k < n THEN lts.tokens[k + 1].src
                   ELSE IF n > 0 THEN lts.tokens[n].src
                   ELSE NullString
        IN  /\ lRet.err = "none"
            /\ lObs.named => lRet.name = lts.sourceName
            /\ ~lObs.named =>
                  lRet.name = IF src.isNull THEN Str(<<"L", "i", "s", "t">>) ELSE src

(***************************************************************************)
(* RuleTagToken: the token that stands for a rule tag of a tree pattern.   *)
(***************************************************************************)
MaxName == 2         \* longest rule name and longest label

NameChars == {"e", "x"}
Names == SeqsUpTo(NameChars, MaxName)

\* a label as passed or stored: a string, null, or undefined (absent)
Label(c) == [kind |-> "string", chars |-> c]
NullLabel == [kind |-> "null", chars |-> <<>>]
UndefinedLabel == [kind |-> "undefined", chars |-> <<>>]
LabelArgs == {Label(c) : c \in Names} \cup {NullLabel, UndefinedLabel}

\* what string concatenation makes of a label
LabelToString(label) ==
    CASE label.kind = "string" -> label.chars
      [] label.kind = "null" -> <<"n", "u", "l", "l">>
      [] label.kind = "undefined" -> <<"u", "n", "d", "e", "f", "i", "n", "e", "d">>

\* constructor(ruleName, bypassTokenType, label?): label ?? undefined
NewRuleTagToken(ruleName, bypassTokenType, label) ==
    [ruleName |-> ruleName,
     bypassTokenType |-> bypassTokenType,
     label |-> IF label.kind \in {"null", "undefined"} THEN UndefinedLabel ELSE label]

\* get text()
text(t) ==
    IF t.label.kind # "null"
    THEN <<"<">> \o LabelToString(t.label) \o <<":">> \o t.ruleName \o <<">">>
    ELSE <<"<">> \o t.ruleName \o <<">">>

\* get type()
type(t) == t.bypassTokenType

TText ==
    /\ UNCHANGED notRttVars
    /\ rtt' = [rtt EXCEPT !.op = "text", !.text = text(rtt.token)]

TType ==
    /\ UNCHANGED notRttVars
    /\ rtt' = [rtt EXCEPT !.op = "type", !.type = type(rtt.token)]

TInit ==
    /\ \E ruleName \in Names, bypassTokenType \in {1, 2}, label \in LabelArgs :
        rtt = [token |-> NewRuleTagToken(ruleName, bypassTokenType, label),
               labelArg |-> label, op |-> "new", text |-> <<>>, type |-> 0]
    /\ LexIdle
    /\ UtsIdle
    /\ PiIdle
    /\ RmdIdle
    /\ StIdle
    /\ LtsIdle
    /\ LlIdle

TNext ==
    \/ TText
    \/ TType

SpecRTT == TInit /\ [][TNext]_vars

(***************************************************************************)
(* Properties of RuleTagToken.                                             *)
(***************************************************************************)
\* C23: the text of a RuleTagToken is '<ruleName>' for a tag built without
\* a label or with the label null, and '<label:ruleName>' for a tag built
\* with a label.
C23_TagText ==
    rtt.op = "text" =>
        rtt.text = IF rtt.labelArg.kind = "string"
                   THEN <<"<">> \o rtt.labelArg.chars \o <<":">>
                            \o rtt.token.ruleName \o <<">">>
                   ELSE <<"<">> \o rtt.token.ruleName \o <<">">>

(***************************************************************************)
(* LL1Analyzer.  The ATN analysed here has three rules over the token      *)
(* types 1..maxTokenType,                                                  *)
(*   r0 : ( r1 1 | . | ~2 | ) ;                                            *)
(*   r1 : ( {pred}? (2|3) | {action} | r2 ) ;                              *)
(*   r2 : ( 3 | ) ;                                                        *)
(* with no left recursion.  r0 is invoked nowhere; the stop states of r1   *)
(* and r2 have an epsilon transition to the follow state of each           *)
(* invocation.  A label is an interval set.                                *)
(***************************************************************************)
MaxTokenType == 3    \* largest token type of the grammar

EPSILON == -2
MIN_USER_TOKEN_TYPE == 1
HIT_PRED == INVALID_TYPE
maxTokenType == MaxTokenType

NoLabel == <<>>
St(stateType, ruleIndex, transitions) ==
    [stateType |-> stateType, ruleIndex |-> ruleIndex, transitions |-> transitions]

llStates ==
    [n \in 0..24 |->
        CASE n = 0 -> St("RULE_START", 0, <<Tr("EPSILON", 1, NoLabel, -1)>>)
          [] n = 1 -> St("BLOCK_START", 0,
                         <<Tr("EPSILON", 2, NoLabel, -1), Tr("EPSILON", 4, NoLabel, -1),
                           Tr("EPSILON", 5, NoLabel, -1), Tr("EPSILON", 6, NoLabel, -1)>>)
          [] n = 2 -> St("BASIC", 0, <<Tr("RULE", 10, NoLabel, 3)>>)
          [] n = 3 -> St("BASIC", 0, <<Tr("ATOM", 7, IntervalSetOf(1, 1), -1)>>)
          [] n = 4 -> St("BASIC", 0, <<Tr("WILDCARD", 7, NoLabel, -1)>>)
          [] n = 5 -> St("BASIC", 0, <<Tr("NOT_SET", 7, IntervalSetOf(2, 2), -1)>>)
          [] n = 6 -> St("BASIC", 0, <<Tr("EPSILON", 7, NoLabel, -1)>>)
          [] n = 7 -> St("BLOCK_END", 0, <<Tr("EPSILON", 8, NoLabel, -1)>>)
          [] n = 8 -> St("BASIC", 0, <<Tr("EPSILON", 9, NoLabel, -1)>>)
          [] n = 9 -> St("RULE_STOP", 0, <<>>)
          [] n = 10 -> St("RULE_START", 1, <<Tr("EPSILON", 11, NoLabel, -1)>>)
          [] n = 11 -> St("BLOCK_START", 1,
                          <<Tr("EPSILON", 12, NoLabel, -1), Tr("EPSILON", 13, NoLabel, -1),
                            Tr("EPSILON", 14, NoLabel, -1)>>)
          [] n = 12 -> St("BASIC", 1, <<Tr("PREDICATE", 15, NoLabel, -1)>>)
          [] n = 13 -> St("BASIC", 1, <<Tr("ACTION", 17, NoLabel, -1)>>)
          [] n = 14 -> St("BASIC", 1, <<Tr("RULE", 19, NoLabel, 16)>>)
          [] n = 15 -> St("BASIC", 1, <<Tr("SET", 17, IntervalSetOf(2, 3), -1)>>)
          [] n = 16 -> St("BASIC", 1, <<Tr("EPSILON", 17, NoLabel, -1)>>)
          [] n = 17 -> St("BLOCK_END", 1, <<Tr("EPSILON", 18, NoLabel, -1)>>)
          [] n = 18 -> St("RULE_STOP", 1, <<Tr("EPSILON", 3, NoLabel, -1)>>)
          [] n = 19 -> St("RULE_START", 2, <<Tr("EPSILON", 20, NoLabel, -1)>>)
          [] n = 20 -> St("BLOCK_START", 2,
                          <<Tr("EPSILON", 21, NoLabel, -1), Tr("EPSILON", 22, NoLabel, -1)>>)
          [] n = 21 -> St("BASIC", 2, <<Tr("ATOM", 23, IntervalSetOf(3, 3), -1)>>)
          [] n = 22 -> St("BASIC", 2, <<Tr("EPSILON", 23, NoLabel, -1)>>)
          [] n = 23 -> St("BLOCK_END", 2, <<Tr("EPSILON", 24, NoLabel, -1)>>)
          [] OTHER -> St("RULE_STOP", 2, <<Tr("EPSILON", 16, NoLabel, -1)>>)]

LlStateNumbers == DOMAIN llStates
NoState == -1        \* a state argument that is null

\* IntervalSet: addSet, complement within [min, max], and the number of elements
addSet(set, other) == Ranges(Members(set) \cup Members(other))
complement(set, min, max) == Ranges((min..max) \ Members(set))
length(set) == Cardinality(Members(set))

\* A prediction context: the return states of the invocations, innermost
\* first, above PredictionContext.EMPTY or above null (no context given).
NullContext == [bottom |-> "null", stack |-> <<>>]
EMPTY == [bottom |-> "EMPTY", stack |-> <<>>]
\* SingletonPredictionContext.create(parent, returnState)
SingletonPredictionContext_create(parent, returnState) == [parent EXCEPT !.stack = <<returnState>> \o @]
getReturnState(ctx) == ctx.stack[1]
getParent(ctx) == [ctx EXCEPT !.stack = Tail(@)]

\* A rule context: the invoking states of the invocations, innermost first;
\* the outermost context has no parent.
NullRuleContext == [isNull |-> TRUE, invoking |-> <<>>]
RuleContextOf(invoking) == [isNull |-> FALSE, invoking |-> invoking]

RECURSIVE predictionContextFromRuleContext(_)
predictionContextFromRuleContext(outerContext) ==
    IF outerContext.invoking = <<>> THEN EMPTY
    ELSE SingletonPredictionContext_create(predictionContextFromRuleContext(
                    [outerContext EXCEPT !.invoking = Tail(@)]),
                llStates[outerContext.invoking[1]].transitions[1].followState)

\* the one element of a singleton set
Only(S) == CHOOSE x \in S : TRUE

RECURSIVE _LOOK(_, _, _, _, _, _, _, _)
RECURSIVE LookTransitions(_, _, _, _, _, _, _, _, _)

\* _LOOK(s, stopState, ctx, look, lookBusy, calledRuleStack, seeThruPreds, addEOF):
\* look and lookBusy after the call
_LOOK(s, stopState, ctx, look, lookBusy, calledRuleStack, seeThruPreds, addEOF) ==
    IF <<s, ctx>> \in lookBusy THEN [look |-> look, lookBusy |-> lookBusy]
    ELSE LET busy == lookBusy \cup {<<s, ctx>>}
             atEnd == s = stopState \/ llStates[s].stateType = "RULE_STOP"
         IN  IF atEnd /\ ctx = NullContext
             THEN [look |-> addOne(look, EPSILON), lookBusy |-> busy]
             ELSE IF atEnd /\ ctx = EMPTY /\ addEOF
             THEN [look |-> addOne(look, EOF), lookBusy |-> busy]
             ELSE IF llStates[s].stateType = "RULE_STOP" /\ ctx # EMPTY
             THEN _LOOK(getReturnState(ctx), stopState, getParent(ctx), look, busy,
                        calledRuleStack \ {llStates[s].ruleIndex}, seeThruPreds, addEOF)
             ELSE LookTransitions(s, 1, stopState, ctx, look, busy, calledRuleStack,
                                  seeThruPreds, addEOF)

\* the loop over s.transitions, from the k-th transition on
LookTransitions(s, k, stopState, ctx, look, lookBusy, calledRuleStack, seeThruPreds, addEOF) ==
    IF k > Len(llStates[s].transitions) THEN [look |-> look, lookBusy |-> lookBusy]
    ELSE LET t == llStates[s].transitions[k]
             same == [look |-> look, lookBusy |-> lookBusy]
             after ==
                 CASE t.type = "RULE" ->
                        IF llStates[t.target].ruleIndex \in calledRuleStack THEN same
                        ELSE _LOOK(t.target, stopState, SingletonPredictionContext_create(ctx, t.followState), look,
                                   lookBusy,
                                   calledRuleStack \cup {llStates[t.target].ruleIndex},
                                   seeThruPreds, addEOF)
                   [] t.type \in {"PREDICATE", "PRECEDENCE"} ->
                        IF seeThruPreds
                        THEN _LOOK(t.target, stopState, ctx, look, lookBusy,
                                   calledRuleStack, seeThruPreds, addEOF)
                        ELSE [same EXCEPT !.look = addOne(look, HIT_PRED)]
                   [] t.type \in {"EPSILON", "ACTION"} ->
                        _LOOK(t.target, stopState, ctx, look, lookBusy, calledRuleStack,
                              seeThruPreds, addEOF)
                   [] t.type = "WILDCARD" ->
                        [same EXCEPT !.look = addRange(look, MIN_USER_TOKEN_TYPE, maxTokenType)]
                   [] t.type = "NOT_SET" ->
                        [same EXCEPT !.look =
                            addSet(look, complement(t.label, MIN_USER_TOKEN_TYPE, maxTokenType))]
                   [] OTHER -> [same EXCEPT !.look = addSet(look, t.label)]
         IN  Only({LookTransitions(s, k + 1, stopState, ctx, r.look, r.lookBusy,
                                   calledRuleStack, seeThruPreds, addEOF) : r \in {after}})

\* LOOK that ignores the context it is given
LOOK_IgnoresContext(s, stopState, ctx) ==
    _LOOK(s, stopState, NullContext, NewIntervalSet, {}, {}, TRUE, TRUE).look

\* LOOK(s, stopState, ctx)
LOOK(s, stopState, ctx) ==
    LET lookContext == IF ~ctx.isNull THEN predictionContextFromRuleContext(ctx)
                       ELSE NullContext
    IN  _LOOK(s, stopState, lookContext, NewIntervalSet, {}, {}, TRUE, TRUE).look

\* an element of the array getDecisionLookahead returns: a set or null
NullLook == [isNull |-> TRUE, set |-> <<>>]
LookOf(set) == [isNull |-> FALSE, set |-> set]

\* getDecisionLookahead that keeps a set holding HIT_PRED
getDecisionLookahead_KeepsHitPred(s) ==
    IF s = NoState THEN [isNull |-> TRUE, look |-> <<>>]
    ELSE [isNull |-> FALSE,
          look |-> [alt \in 1..Len(llStates[s].transitions) |->
                      Only({IF length(l) = 0 THEN NullLook ELSE LookOf(l) :
                            l \in {_LOOK(llStates[s].transitions[alt].target, NoState, EMPTY,
                                         NewIntervalSet, {}, {}, FALSE, FALSE).look}})]]

\* getDecisionLookahead(s): null, or the array of the alternatives' sets
getDecisionLookahead(s) ==
    IF s = NoState THEN [isNull |-> TRUE, look |-> <<>>]
    ELSE [isNull |-> FALSE,
          look |-> [alt \in 1..Len(llStates[s].transitions) |->
                      Only({IF length(l) = 0 \/ contains(l, HIT_PRED) THEN NullLook
                            ELSE LookOf(l) :
                            l \in {_LOOK(llStates[s].transitions[alt].target, NoState, EMPTY,
                                         NewIntervalSet, {}, {}, FALSE, FALSE).look}})]]

\* the arguments of the calls: a state, a stop state of the same rule or
\* null, and null or a rule context that leads to the state's rule
RuleContextsOf(ruleIndex) ==
    {NullRuleContext, RuleContextOf(<<>>)}
        \cup (IF ruleIndex >= 1 THEN {RuleContextOf(<<2>>)} ELSE {})
        \cup (IF ruleIndex = 2 THEN {RuleContextOf(<<14>>), RuleContextOf(<<14, 2>>)} ELSE {})

NoResult == [isNull |-> TRUE, look |-> <<>>]

ALook ==
    /\ UNCHANGED notLlVars
    /\ ll.op = "new"
    /\ ll.s # NoState
    /\ ll' = [ll EXCEPT !.op = "LOOK", !.r = LOOK(ll.s, ll.stopState, ll.ctx)]

AGetDecisionLookahead ==
    /\ UNCHANGED notLlVars
    /\ ll.op = "new"
    /\ ll' = [ll EXCEPT !.op = "getDecisionLookahead", !.look = getDecisionLookahead(ll.s)]

AInit ==
    /\ \E s \in {NoState} \cup LlStateNumbers :
        \E stopState \in {NoState} \cup {n \in LlStateNumbers : s # NoState
                                            /\ llStates[n].ruleIndex = llStates[s].ruleIndex},
           ctx \in IF s = NoState THEN {NullRuleContext}
                   ELSE RuleContextsOf(llStates[s].ruleIndex) :
            ll = [op |-> "new", s |-> s, stopState |-> stopState, ctx |-> ctx,
                  r |-> <<>>, look |-> NoResult]
    /\ LexIdle
    /\ UtsIdle
    /\ PiIdle
    /\ RmdIdle
    /\ StIdle
    /\ LtsIdle
    /\ RttIdle

ANext ==
    \/ ALook
    \/ AGetDecisionLookahead

SpecLL1 == AInit /\ [][ANext]_vars

(***************************************************************************)
(* Properties of LL1Analyzer.  What a call can reach without consuming a   *)
(* symbol is stated apart from _LOOK, as the least set of configurations   *)
(* (state, context) closed under the ATN's non-consuming moves.            *)
(***************************************************************************)
Config(s, ctx) == [s |-> s, ctx |-> ctx]

\* the configuration stands at the stop state or at the end of a rule with
\* nothing left to return to
Ends(c, stopState, addEOF) ==
    /\ c.s = stopState \/ llStates[c.s].stateType = "RULE_STOP"
    /\ c.ctx = NullContext \/ (c.ctx = EMPTY /\ addEOF)

\* the configuration returns from a rule invocation
Returns(c) == llStates[c.s].stateType = "RULE_STOP" /\ c.ctx.stack # <<>>

Moves(c, stopState, seeThruPreds, addEOF) ==
    IF Ends(c, stopState, addEOF) THEN {}
    ELSE IF Returns(c) THEN {Config(c.ctx.stack[1], [c.ctx EXCEPT !.stack = Tail(@)])}
    ELSE LET ts == llStates[c.s].transitions
         IN  {Config(ts[k].target, c.ctx) :
                 k \in {j \in 1..Len(ts) :
                           \/ ts[j].type \in {"EPSILON", "ACTION"}
                           \/ ts[j].type = "PREDICATE" /\ seeThruPreds}}
             \cup {Config(ts[k].target,
                          [c.ctx EXCEPT !.stack = <<ts[k].followState>> \o @]) :
                      k \in {j \in 1..Len(ts) : ts[j].type = "RULE"}}

RECURSIVE Reach(_, _, _, _)
Reach(F, stopState, seeThruPreds, addEOF) ==
    Only({IF G = F THEN F ELSE Reach(G, stopState, seeThruPreds, addEOF) :
          G \in {F \cup UNION {Moves(c, stopState, seeThruPreds, addEOF) : c \in F}}})

\* the configurations of R from which the ATN goes on: neither at an end
\* nor returning
Going(R, stopState, addEOF) == {c \in R : ~Ends(c, stopState, addEOF) /\ ~Returns(c)}

\* the symbols a transition matches
Matched(t) ==
    CASE t.type \in {"ATOM", "RANGE", "SET"} -> Members(t.label)
      [] t.type = "WILDCARD" -> MIN_USER_TOKEN_TYPE..maxTokenType
      [] t.type = "NOT_SET" -> (MIN_USER_TOKEN_TYPE..maxTokenType) \ Members(t.label)
      [] OTHER -> {}

FirstSymbols(R, stopState, addEOF) ==
    UNION {UNION {Matched(llStates[c.s].transitions[k]) :
                     k \in 1..Len(llStates[c.s].transitions)} :
              c \in Going(R, stopState, addEOF)}

\* C24: LOOK(s, stopState, ctx) with ctx null holds EPSILON exactly when
\* stopState or the end of the rule containing s can be reached without
\* consuming a symbol, and then never EOF; with a context it holds EOF
\* exactly when the end of the outermost context (or stopState with an empty
\* context) can be reached, and never EPSILON.  A wildcard contributes
\* exactly MIN_USER_TOKEN_TYPE..maxTokenType and a not-set the complement of
\* its label within that range: the rest of the result is the set of the
\* symbols matched first.
C24_LookEnds ==
    ll.op = "LOOK" =>
        LET ctx == IF ll.ctx.isNull THEN NullContext
                   ELSE predictionContextFromRuleContext(ll.ctx)
            R == Reach({Config(ll.s, ctx)}, ll.stopState, TRUE, TRUE)
            endReached == \E c \in R : Ends(c, ll.stopState, TRUE)
            set == Members(ll.r)
        IN  /\ ll.ctx.isNull => /\ EPSILON \in set <=> endReached
                                /\ EOF \notin set
            /\ ~ll.ctx.isNull => /\ EOF \in set <=> endReached
                                 /\ EPSILON \notin set
            /\ set \ {EPSILON, EOF} = FirstSymbols(R, ll.stopState, TRUE)

C24_Witness ==
    /\ ll.op = "LOOK"
    /\ ll.s = 1
    /\ ll.stopState = 7
    /\ ll.ctx = RuleContextOf(<<>>)
    /\ Members(ll.r) = {EOF} \cup (MIN_USER_TOKEN_TYPE..maxTokenType)

\* C25: getDecisionLookahead(s) is null for s = null and otherwise an array
\* with one element for each transition of s; element i is null exactly
\* when the closure from the target of transition i reaches a predicate
\* before matching a symbol or can match no symbol, and otherwise is the
\* non-empty set of the symbols matched first, without HIT_PRED.
C25_DecisionLookahead ==
    ll.op = "getDecisionLookahead" =>
        /\ ll.look.isNull <=> ll.s = NoState
        /\ ll.s # NoState =>
              /\ Len(ll.look.look) = Len(llStates[ll.s].transitions)
              /\ \A alt \in 1..Len(ll.look.look) :
                    LET R == Reach({Config(llStates[ll.s].transitions[alt].target, EMPTY)},
                                   NoState, FALSE, FALSE)
                        first == FirstSymbols(R, NoState, FALSE)
                        hitPred == \E c \in Going(R, NoState, FALSE) :
                                      \E k \in 1..Len(llStates[c.s].transitions) :
                                          llStates[c.s].transitions[k].type = "PREDICATE"
                        e == ll.look.look[alt]
                    IN  /\ e.isNull <=> (hitPred \/ first = {})
                        /\ ~e.isNull => /\ Members(e.set) = first
                                        /\ first # {}
                                        /\ HIT_PRED \notin Members(e.set)

C25_Witness ==
    /\ ll.op = "getDecisionLookahead"
    /\ ll.s = 1
    /\ ll.look.look[1].isNull
    /\ Members(ll.look.look[2].set) = MIN_USER_TOKEN_TYPE..maxTokenType
    /\ Members(ll.look.look[3].set) = (MIN_USER_TOKEN_TYPE..maxTokenType) \ {2}
    /\ ll.look.look[4].isNull

=============================================================================
